---- MODULE Spec2Model ----
(***************************************************************************)
(* Model of the transaction manager of coreblocks                          *)
(* (coreblocks/transactions/core.py): the build (MethodMap, _simultaneous, *)
(* _conflict_graph) and the per-cycle grant/run logic it generates, for    *)
(* the eager deterministic and the round-robin schedulers.                 *)
(*                                                                         *)
(* A behaviour is: a declared design (Init) -> Elaborate (the build, which *)
(* may raise) -> Cycle (the combinational logic settles for one choice of  *)
(* the request/ready/enable inputs) -> Tick (clock edge) -> Cycle -> ...   *)
(***************************************************************************)
EXTENDS Integers, Sequences, FiniteSets, TLC

VARIABLES
    transactions,       \* TransactionManager.transactions (registration order)
    method_uses,        \* TransactionBase.method_uses: element -> methods it calls
    var_enable,         \* the uses <<source, method>> whose enable is a signal, not C(1)
    nonexclusive,       \* the methods built with nonexclusive=True
    relations,          \* the declared relations (start, end, priority, conflict)
    simultaneous,       \* the simultaneous_with declarations: <<elem, other, ...>>
    def_order,          \* TransactionBase.def_order of every element
    cc_scheduler,       \* TransactionManager.cc_scheduler
    pc,                 \* "body" | "declared" | "elaborated" | "cycle" | "error" | "none"
    error,              \* the exception elaborate() raised ("" when none)
    merged,             \* synthetic transaction -> the group of transactions it joins
    methods_by_transaction, \* MethodMap of elaborate()
    cgr, rgr, porder,   \* the results of _conflict_graph
    ccs,                \* _graph_ccs(rgr), each component in the order its scheduler enumerates it
    request, ready, enable, \* the inputs of the current cycle
    grant, run,         \* the outputs of the current cycle
    grant_reg,          \* round-robin: Scheduler.grant_reg of every component (an index)
    args, valid_bits,   \* min_combiner: the arguments and the enables of the callers of report
    rob_start_idx,      \* rob_get_indices(m).start
    ret,                \* min_combiner: the argument it hands to the method
    eir,                \* ExceptionInformationRegister: valid, rob_id, cause, pc, mtval
    reported,           \* history: the reports since the last clear, summed up
    entries,            \* FRAT.entries: logical register -> physical register
    rename_out,         \* the last call of FRAT.rename: its sources and what it returned
    renames,            \* history: the rl_dst and rp_dst of the calls of FRAT.rename
    free_rf_reg,        \* Core: the counter of the InitFreeRFFifo transaction
    free_rf_level,      \* Core: the number of entries of free_rf_fifo
    free_rf_written,    \* history: what InitFreeRFFifo wrote to free_rf_fifo
    sim_q,              \* _simultaneous: the work queue q of step 2
    sim_groups,         \* _simultaneous: the set `simultaneous` of step 2
    sim_conflicts,      \* _simultaneous: the list `conflicts`
    sim_added,          \* history: the groups the loop of step 2 added
    rf_entries,         \* RegisterFile.entries: the data of every physical register
    rf_valids,          \* RegisterFile.valids
    bypass_valids,      \* RegisterFile: bypass_valids of the cycle
    bypass_data,        \* RegisterFile: the reg_id of bypass_data of the cycle
    read_ret,           \* RegisterFile: what read_resp1 returns in the cycle
    rf_calls,           \* history: the calls of write, bypass and free in the cycle
    initialized,        \* RRAT: initialized
    rl_idx,             \* RRAT: rl_idx
    rrat_entries,       \* RRAT.entries: the physical register of every logical register
    write_ready,        \* RRAT.entries.write: ready in the cycle
    peeked,             \* RRAT: the address of the last peek
    rrat_writes,        \* history: the writes of the initialization transaction
    front,              \* FifoRS: front
    back,               \* FifoRS: back
    reserved,           \* FifoRS: reserved, as the set of the bits that are 1
    rs_ret,             \* FifoRS: the ident alloc returned and the idx free_idx got in the cycle
    last_ident,         \* history: the ident of the last alloc
    outstanding,        \* history: the entries allocated and not released, oldest first
    min_inputs,         \* min_value: the values given, each with its width
    min_result          \* min_value: the result

vars == <<transactions, method_uses, var_enable, nonexclusive, relations, simultaneous,
          def_order, cc_scheduler, pc, error, merged, methods_by_transaction, cgr, rgr, porder, ccs,
          request, ready, enable, grant, run, grant_reg,
          args, valid_bits, rob_start_idx, ret, eir, reported,
          entries, rename_out, renames,
          free_rf_reg, free_rf_level, free_rf_written,
          sim_q, sim_groups, sim_conflicts, sim_added,
          rf_entries, rf_valids, bypass_valids, bypass_data, read_ret, rf_calls,
          initialized, rl_idx, rrat_entries, write_ready, peeked, rrat_writes,
          front, back, reserved, rs_ret, last_ident, outstanding,
          min_inputs, min_result>>

design_vars == <<var_enable, nonexclusive, relations, simultaneous, def_order, cc_scheduler>>
build_vars == <<transactions, method_uses, merged, methods_by_transaction, cgr, rgr, porder, ccs>>
signal_vars == <<request, ready, enable, grant, run>>
\* The transaction framework, and the blocks of the core built with it.
framework_vars == <<design_vars, build_vars, signal_vars, pc, error, grant_reg>>
combiner_vars == <<args, valid_bits, ret>>
eir_vars == <<eir, reported>>
frat_vars == <<entries, rename_out, renames>>
freerf_vars == <<free_rf_reg, free_rf_level, free_rf_written>>
merger_vars == <<sim_q, sim_groups, sim_conflicts, sim_added>>
rf_vars == <<rf_entries, rf_valids, bypass_valids, bypass_data, read_ret, rf_calls>>
rrat_vars == <<initialized, rl_idx, rrat_entries, write_ready, peeked, rrat_writes>>
fifo_rs_vars == <<front, back, reserved, rs_ret, last_ident, outstanding>>
min_value_vars == <<min_inputs, min_result>>
core_vars == <<combiner_vars, rob_start_idx, eir_vars, frat_vars, freerf_vars, merger_vars, rf_vars, rrat_vars, fifo_rs_vars, min_value_vars>>
\* What the steps of one block leave alone.
not_combiner_vars == <<framework_vars, rob_start_idx, eir_vars, frat_vars, freerf_vars, merger_vars, rf_vars, rrat_vars, fifo_rs_vars, min_value_vars>>
not_eir_vars == <<framework_vars, combiner_vars, frat_vars, freerf_vars, merger_vars, rf_vars, rrat_vars, fifo_rs_vars, min_value_vars>>
not_frat_vars == <<framework_vars, combiner_vars, rob_start_idx, eir_vars, freerf_vars, merger_vars, rf_vars, rrat_vars, fifo_rs_vars, min_value_vars>>
not_freerf_vars == <<framework_vars, combiner_vars, rob_start_idx, eir_vars, frat_vars, merger_vars, rf_vars, rrat_vars, fifo_rs_vars, min_value_vars>>
not_merger_vars == <<framework_vars, combiner_vars, rob_start_idx, eir_vars, frat_vars, freerf_vars, rf_vars, rrat_vars, fifo_rs_vars, min_value_vars>>
not_rf_vars == <<framework_vars, combiner_vars, rob_start_idx, eir_vars, frat_vars, freerf_vars, merger_vars, rrat_vars, fifo_rs_vars, min_value_vars>>
not_rrat_vars == <<framework_vars, combiner_vars, rob_start_idx, eir_vars, frat_vars, freerf_vars, merger_vars, rf_vars, fifo_rs_vars, min_value_vars>>
not_fifo_rs_vars == <<framework_vars, combiner_vars, rob_start_idx, eir_vars, frat_vars, freerf_vars, merger_vars, rf_vars, rrat_vars, min_value_vars>>
not_min_value_vars == <<framework_vars, combiner_vars, rob_start_idx, eir_vars, frat_vars, freerf_vars, merger_vars, rf_vars, rrat_vars, fifo_rs_vars>>

----------------------------------------------------------------------------
(* The universe of declared objects.                                       *)

\* Transactions in the order they are constructed (Transaction.__init__ registers).
AllTransactions == <<"T1", "T2", "T3", "T4">>
\* The methods a design may declare.
Methods == {"M1", "M2"}
\* The method _simultaneous creates for a joined transaction.
MethodOf == [t \in {"T1", "T2", "T3", "T4"} |-> "m" \o t]
\* The names of the merged transactions _simultaneous creates, in creation order.
SynthNames == <<"S1", "S2", "S3", "S4", "S5", "S6">>
\* A fixed listing of every method, used to turn a set of methods into a list.
MethodListing == <<"M1", "M2", "mT1", "mT2", "mT3", "mT4">>

Range(s) == {s[i] : i \in 1..Len(s)}
OrigTransactions == Range(AllTransactions)
SynthTransactions == Range(SynthNames)
JoinedMethods == {MethodOf[t] : t \in OrigTransactions}
AllMethods == Methods \cup JoinedMethods
Elems == OrigTransactions \cup Methods

\* isinstance(elem, Transaction)
IsTransaction(elem) == elem \in OrigTransactions \cup SynthTransactions

\* A set as a list, in the order of a listing.
SeqOf(S, listing) == SelectSeq(listing, LAMBDA x : x \in S)

RECURSIVE SetToSeq(_)
SetToSeq(S) == IF S = {} THEN <<>>
               ELSE LET x == CHOOSE x \in S : TRUE IN <<x>> \o SetToSeq(S \ {x})

RECURSIVE Perms(_)
\* Every order in which a set can be iterated.
Perms(S) == IF S = {} THEN {<<>>}
            ELSE UNION {{<<x>> \o p : p \in Perms(S \ {x})} : x \in S}

IndexOf(s, x) == CHOOSE i \in 1..Len(s) : s[i] = x

----------------------------------------------------------------------------
(* The exceptions elaborate() can raise                                    *)

\* RuntimeError("Method can't be called twice from the same transaction")
CalledTwice == "RuntimeError: Method can't be called twice from the same transaction"
\* RuntimeError("... scheduled before ..., but defined afterwards")
ScheduledBefore == "RuntimeError: scheduled before, but defined afterwards"
\* add_edge on a transaction that is no key of the graphs
KeyError == "KeyError"
\* graphlib.CycleError, raised by static_order()
CycleError == "graphlib.CycleError"

----------------------------------------------------------------------------
(* MethodMap                                                               *)

\* Mutant: only the methods the transaction calls itself are recorded.
rec_Direct(uses, stack, acc) == [ok |-> TRUE, methods |-> stack]

RECURSIVE rec(_, _, _)
\* MethodMap.__init__.rec for one transaction: stack holds the methods still to
\* visit (depth first), acc is methods_by_transaction[transaction] so far.
rec(uses, stack, acc) ==
    IF stack = <<>> THEN [ok |-> TRUE, methods |-> acc]
    ELSE LET method == Head(stack) IN
         IF method \in Range(acc)
         THEN [ok |-> FALSE, methods |-> acc]   \* "Method can't be called twice ..."
         ELSE rec(uses, SeqOf(uses[method], MethodListing) \o Tail(stack), Append(acc, method))

\* MethodMap(transactions): ok is FALSE when the constructor raises.
MethodMap(trs, uses) ==
    LET r == [t \in Range(trs) |-> rec(uses, SeqOf(uses[t], MethodListing), <<>>)]
    IN  [ok |-> \A t \in Range(trs) : r[t].ok,
         methods_by_transaction |-> [t \in Range(trs) |-> Range(r[t].methods)]]

\* MethodMap.transactions_by_method[method] (a defaultdict: empty for an unused method)
TransactionsByMethod(mbt, method) == {t \in DOMAIN mbt : method \in mbt[t]}

\* MethodMap.methods
MapMethods(mbt) == UNION {mbt[t] : t \in DOMAIN mbt}

\* MethodMap.transactions_for
TransactionsFor(mbt, elem) ==
    IF IsTransaction(elem) THEN {elem} ELSE TransactionsByMethod(mbt, elem)

----------------------------------------------------------------------------
(* TransactionManager._simultaneous, steps 1-3                             *)

RECURSIVE conflict_for(_, _)
\* The groups one declaration expands to: one caller chosen for every element.
conflict_for(mbt, elem_list) ==
    IF elem_list = <<>> THEN {{}}
    ELSE {{t} \cup g : t \in TransactionsFor(mbt, Head(elem_list)),
                       g \in conflict_for(mbt, Tail(elem_list))}

\* The declarations _simultaneous reads: those of the elements of the method map.
ReadDeclarations(mbt, decls) ==
    SetToSeq({d \in decls : d[1] \in MapMethods(mbt) \cup DOMAIN mbt})

\* step 1: the list `conflicts`, one set of groups per declaration.
ConflictSets(mbt, decls) ==
    LET ds == ReadDeclarations(mbt, decls)
    IN  [i \in 1..Len(ds) |-> conflict_for(mbt, ds[i])]

conflicting(conflicts, group1, group2) ==
    \E i \in 1..Len(conflicts) : group1 \in conflicts[i] /\ group2 \in conflicts[i]

mergable_pairs(sim, conflicts, group1) ==
    LET cand == SetToSeq({group2 \in sim : group1 \cap group2 # {}
                                          /\ ~conflicting(conflicts, group1, group2)})
    IN  [i \in 1..Len(cand) |-> <<group1, cand[i]>>]

RECURSIVE InitialQueue(_, _, _)
InitialQueue(groups, sim, conflicts) ==
    IF groups = <<>> THEN <<>>
    ELSE mergable_pairs(sim, conflicts, Head(groups)) \o InitialQueue(Tail(groups), sim, conflicts)

\* One iteration of `while q` changes the conflict sets so:
AddToConflicts(conflicts, group1, group2, new_group) ==
    [i \in 1..Len(conflicts) |->
        IF group1 \in conflicts[i] \/ group2 \in conflicts[i]
        THEN conflicts[i] \cup {new_group} ELSE conflicts[i]]

RECURSIVE transitivity(_, _, _)
\* step 2: the work-queue loop; returns the closure `simultaneous`.
transitivity(q, sim, conflicts) ==
    IF q = <<>> THEN sim
    ELSE LET group1 == Head(q)[1]
             group2 == Head(q)[2]
             new_group == group1 \cup group2
         IN  IF new_group \in sim THEN transitivity(Tail(q), sim, conflicts)
             ELSE transitivity(Tail(q) \o mergable_pairs(sim, conflicts, new_group),
                               sim \cup {new_group},
                               AddToConflicts(conflicts, group1, group2, new_group))

\* The closure of the declared groups.
SimClosure(mbt, decls) ==
    LET conflicts == ConflictSets(mbt, decls)
        sim0 == UNION {conflicts[i] : i \in 1..Len(conflicts)}
    IN  transitivity(InitialQueue(SetToSeq(sim0), sim0, conflicts), sim0, conflicts)

\* Mutant: a group is kept when no other group is inside it.
maximal_Minimal(sim, group) == ~\E group2 \in sim : group2 \subseteq group /\ group # group2

\* step 3
maximal(sim, group) == ~\E group2 \in sim : group \subseteq group2 /\ group # group2

final_simultaneous(mbt, decls) ==
    LET sim == SimClosure(mbt, decls) IN {group \in sim : maximal(sim, group)}

----------------------------------------------------------------------------
(* TransactionManager._simultaneous, steps 4-5, and the design elaborate   *)
(* sees after it                                                           *)

joined_transactions(final) == UNION final

\* self.transactions after the merge: the transactions not joined, then one new
\* transaction per final group, in the order the set of groups is iterated.
MergedTransactions(trs, final, order) ==
    SelectSeq(trs, LAMBDA t : t \notin joined_transactions(final))
        \o SubSeq(SynthNames, 1, Len(order))

\* method_uses after the merge: a merged transaction calls the method made for
\* each transaction of its group; that method is a fresh Method, with no uses.
MergedUses(uses, order) ==
    [e \in DOMAIN uses \cup JoinedMethods \cup {SynthNames[i] : i \in 1..Len(order)} |->
        IF e \in SynthTransactions THEN {MethodOf[t] : t \in order[IndexOf(SynthNames, e)]}
        ELSE IF e \in JoinedMethods THEN {}
        ELSE uses[e]]

\* elaborate's `relations`: those of the elements of the new method map.
CollectedRelations(mbt, rels) ==
    {r \in rels : r.start \in MapMethods(mbt) \cup DOMAIN mbt}

----------------------------------------------------------------------------
(* TransactionManager._conflict_graph                                      *)

\* Mutant: the nonexclusive flag is not looked at.
ImplicitEdges_AllExclusive(mbt, nonexcl) ==
    {[begin |-> p[1], end |-> p[2], priority |-> "UNDEFINED", conflict |-> TRUE] :
        p \in {q \in (DOMAIN mbt) \X (DOMAIN mbt) :
                  /\ q[1] # q[2]
                  /\ \E method \in MapMethods(mbt) :
                         method \in mbt[q[1]] /\ method \in mbt[q[2]]}}

\* Mutant: the test of method.nonexclusive is inverted.
ImplicitEdges_Inverted(mbt, nonexcl) ==
    {[begin |-> p[1], end |-> p[2], priority |-> "UNDEFINED", conflict |-> TRUE] :
        p \in {q \in (DOMAIN mbt) \X (DOMAIN mbt) :
                  /\ q[1] # q[2]
                  /\ \E method \in MapMethods(mbt) \cap nonexcl :
                         method \in mbt[q[1]] /\ method \in mbt[q[2]]}}

\* Every call add_edge(begin, end, priority, conflict) the function makes.
ImplicitEdges(mbt, nonexcl) ==
    {[begin |-> p[1], end |-> p[2], priority |-> "UNDEFINED", conflict |-> TRUE] :
        p \in {q \in (DOMAIN mbt) \X (DOMAIN mbt) :
                  /\ q[1] # q[2]
                  /\ \E method \in MapMethods(mbt) \ nonexcl :
                         method \in mbt[q[1]] /\ method \in mbt[q[2]]}}

\* Mutant: the edge of a relation is added from its end to its start.
ExplicitEdges_Reversed(mbt, rels) ==
    UNION {{[begin |-> te, end |-> ts, priority |-> r.priority, conflict |-> r.conflict] :
               <<ts, te>> \in TransactionsFor(mbt, r.start) \X TransactionsFor(mbt, r.end)} :
           r \in rels}

\* The edges added for the declared relations.
ExplicitEdges(mbt, rels) ==
    UNION {{[begin |-> ts, end |-> te, priority |-> r.priority, conflict |-> r.conflict] :
               <<ts, te>> \in TransactionsFor(mbt, r.start) \X TransactionsFor(mbt, r.end)} :
           r \in rels}

\* Mutant: the check of def_order is applied to every relation.
ScheduleOrderError_AnyRelation(rels, deford) ==
    \E r \in rels : deford[r.end] < deford[r.start]

\* "scheduled before ..., but defined afterwards"
ScheduleOrderError(rels, deford) ==
    \E r \in rels : ~r.conflict /\ deford[r.end] < deford[r.start]

\* add_edge on a transaction that is no key of the graphs (a KeyError)
EdgeKeyError(mbt, edges) ==
    \E e \in edges : e.begin \notin DOMAIN mbt \/ e.end \notin DOMAIN mbt

\* rgr
RelationGraph(mbt, edges) ==
    [t \in DOMAIN mbt |-> {e.end : e \in {x \in edges : x.begin = t}}
                          \cup {e.begin : e \in {x \in edges : x.end = t}}]

\* cgr
ConflictGraph(mbt, edges) == RelationGraph(mbt, {e \in edges : e.conflict})

\* Mutant: LEFT and RIGHT are exchanged.
PriorityGraph_Swapped(mbt, edges) ==
    [t \in DOMAIN mbt |->
        {e.begin : e \in {x \in edges : x.end = t /\ x.priority = "RIGHT"}}
        \cup {e.end : e \in {x \in edges : x.begin = t /\ x.priority = "LEFT"}}]

\* pgr: pgr[t] holds the transactions that precede t
PriorityGraph(mbt, edges) ==
    [t \in DOMAIN mbt |->
        {e.begin : e \in {x \in edges : x.end = t /\ x.priority = "LEFT"}}
        \cup {e.end : e \in {x \in edges : x.begin = t /\ x.priority = "RIGHT"}}]

(* graphlib.TopologicalSorter(pgr).static_order(), as CPython computes it.  *)
RECURSIVE node2info(_, _, _)
\* The possible key orders of _node2info: a node is entered at its turn, and the
\* predecessors not yet entered follow in the iteration order of a set.
node2info(nodes, pgr, acc) ==
    IF nodes = <<>> THEN {acc}
    ELSE LET node == Head(nodes)
             acc1 == IF node \in Range(acc) THEN acc ELSE Append(acc, node)
             fresh == pgr[node] \ Range(acc1)
         IN  UNION {node2info(Tail(nodes), pgr, acc1 \o p) : p \in Perms(fresh)}

RECURSIVE done(_, _, _, _, _)
\* TopologicalSorter.done(*finished): the nodes that become ready, in order.
done(nodes, pgr, finished, npred, newready) ==
    IF finished = <<>> THEN [ready |-> newready, npred |-> npred]
    ELSE LET succs == SelectSeq(nodes, LAMBDA n : Head(finished) \in pgr[n])
             np == [n \in DOMAIN npred |-> IF n \in Range(succs) THEN npred[n] - 1 ELSE npred[n]]
         IN  done(nodes, pgr, Tail(finished), np,
                  newready \o SelectSeq(succs, LAMBDA n : np[n] = 0))

RECURSIVE static_order(_, _, _, _, _)
static_order(nodes, pgr, rdy, npred, out) ==
    IF rdy = <<>> THEN out
    ELSE LET r == done(nodes, pgr, rdy, npred, <<>>)
         IN  static_order(nodes, pgr, r.ready, r.npred, out \o rdy)

\* Mutant: the order is the registration order, whatever the priorities.
StaticOrders_Registration(nodes, pgr) == {nodes}

\* Every order static_order() can yield; an order shorter than nodes is a CycleError.
StaticOrders(nodes, pgr) ==
    {static_order(nodes, pgr, SelectSeq(o, LAMBDA n : pgr[n] = {}),
                  [n \in Range(nodes) |-> Cardinality(pgr[n])], <<>>) :
        o \in node2info(nodes, pgr, <<>>)}

\* porder of an order
PriorityOrder(order) == [t \in Range(order) |-> IndexOf(order, t) - 1]

----------------------------------------------------------------------------
(* _graph_ccs: the connected components of a graph, listed by first vertex *)

RECURSIVE Reach(_, _)
Reach(gr, S) ==
    LET N == S \cup UNION {gr[v] : v \in S} IN IF N = S THEN S ELSE Reach(gr, N)

RECURSIVE graph_ccs(_, _, _)
graph_ccs(gr, keys, visited) ==
    IF keys = <<>> THEN <<>>
    ELSE IF Head(keys) \in visited THEN graph_ccs(gr, Tail(keys), visited)
    ELSE LET cc == Reach(gr, {Head(keys)})
         IN  <<cc>> \o graph_ccs(gr, Tail(keys), visited \cup cc)

----------------------------------------------------------------------------
(* The schedulers                                                          *)

\* Mutant: the component is sorted by decreasing porder.
SortByPriority_Reversed(cc, po) ==
    [i \in 1..Cardinality(cc) |->
        CHOOSE t \in cc : Cardinality({u \in cc : po[u] > po[t]}) = i - 1]

\* ccl.sort(key=porder)
SortByPriority(cc, po) ==
    [i \in 1..Cardinality(cc) |->
        CHOOSE t \in cc : Cardinality({u \in cc : po[u] < po[t]}) = i - 1]

\* Mutant: a transaction waits for every method of the design.
Runnable_AllMethods(mbt, rdy, t) == \A method \in DOMAIN rdy : rdy[method]

\* runnable = Cat(ready).all()
Runnable(mbt, rdy, t) == \A method \in mbt[t] : rdy[method]

\* Mutant: every earlier transaction of the component counts as a conflict.
Conflicts_AllEarlier(ccl, k, gr) == 1..(k - 1)

\* conflicts = [ccl[j].grant for j in range(k) if ccl[j] in gr[transaction]]
Conflicts(ccl, k, gr) == {j \in 1..(k - 1) : ccl[j] \in gr[ccl[k]]}

\* Mutant: the grant ignores the grants of the conflicting transactions.
EagerGrant_IgnoresConflicts(req, runnable, noconflict) == req /\ runnable

\* Mutant: the grant ignores the readiness of the used methods.
EagerGrant_IgnoresReady(req, runnable, noconflict) == req /\ noconflict

\* transaction.grant.eq(transaction.request & runnable & noconflict)
EagerGrant(req, runnable, noconflict) == req /\ runnable /\ noconflict

RECURSIVE eager_grants(_, _, _, _, _, _, _)
\* The grants of one component, transaction after transaction of ccl.
eager_grants(ccl, k, g, mbt, gr, req, rdy) ==
    IF k > Len(ccl) THEN g
    ELSE LET noconflict == ~\E j \in Conflicts(ccl, k, gr) : g[ccl[j]]
         IN  eager_grants(ccl, k + 1,
                 g @@ (ccl[k] :> EagerGrant(req[ccl[k]], Runnable(mbt, rdy, ccl[k]), noconflict)),
                 mbt, gr, req, rdy)

eager_deterministic_cc_scheduler(cc, po, mbt, gr, req, rdy) ==
    eager_grants(SortByPriority(Range(cc), po), 1, <<>>, mbt, gr, req, rdy)

\* Scheduler (one-hot round robin): the index granted when grant_reg is i.
\* The requesters after i, cyclically, come first; i itself comes last.
SchedulerGrant(n, i, requests) ==
    LET after == [k \in 1..(n - 1) |-> ((i - 1 + k) % n) + 1]
        hits == {k \in 1..(n - 1) : requests[after[k]]}
    IN  IF hits = {} THEN i ELSE after[CHOOSE k \in hits : \A h \in hits : k <= h]

\* Scheduler.valid
SchedulerValid(n, requests) == \E k \in 1..n : requests[k]

\* sched.requests[k].eq(transaction.request & runnable)
RoundRobinRequests(cc, mbt, req, rdy) ==
    [k \in 1..Len(cc) |-> req[cc[k]] /\ Runnable(mbt, rdy, cc[k])]

\* Mutant: the requester of the lowest index is granted, whatever grant_reg is.
trivial_roundrobin_cc_scheduler_FixedPriority(cc, i, mbt, req, rdy) ==
    LET requests == RoundRobinRequests(cc, mbt, req, rdy)
    IN  [t \in Range(cc) |->
            /\ requests[IndexOf(cc, t)]
            /\ \A k \in 1..(IndexOf(cc, t) - 1) : ~requests[k]]

\* Mutant: every requester of the component is granted.
trivial_roundrobin_cc_scheduler_AllRequesters(cc, i, mbt, req, rdy) ==
    [t \in Range(cc) |-> RoundRobinRequests(cc, mbt, req, rdy)[IndexOf(cc, t)]]

\* transaction.grant.eq(sched.grant[k] & sched.valid)
trivial_roundrobin_cc_scheduler(cc, i, mbt, req, rdy) ==
    LET requests == RoundRobinRequests(cc, mbt, req, rdy)
    IN  [t \in Range(cc) |->
            /\ SchedulerGrant(Len(cc), i, requests) = IndexOf(cc, t)
            /\ SchedulerValid(Len(cc), requests)]

RECURSIVE Schedulers_RoundRobinOnly(_, _, _, _, _, _, _, _)
\* Mutant: every component gets the round-robin scheduler.
Schedulers_RoundRobinOnly(sched, components, regs, po, mbt, gr, req, rdy) ==
    IF components = <<>> THEN <<>>
    ELSE trivial_roundrobin_cc_scheduler(Head(components), Head(regs), mbt, req, rdy)
         @@ Schedulers_RoundRobinOnly(sched, Tail(components), Tail(regs), po, mbt, gr, req, rdy)

\* The grants of all components.
RECURSIVE Schedulers(_, _, _, _, _, _, _, _)
Schedulers(sched, components, regs, po, mbt, gr, req, rdy) ==
    IF components = <<>> THEN <<>>
    ELSE (IF sched = "eager"
          THEN eager_deterministic_cc_scheduler(Head(components), po, mbt, gr, req, rdy)
          ELSE trivial_roundrobin_cc_scheduler(Head(components), Head(regs), mbt, req, rdy))
         @@ Schedulers(sched, Tail(components), Tail(regs), po, mbt, gr, req, rdy)

----------------------------------------------------------------------------
(* TransactionManager.elaborate: the run logic                             *)

\* _method_uses: the element through which transaction t reaches method
Source(uses, mbt, t, method) ==
    CHOOSE src \in {t} \cup mbt[t] : method \in uses[src]

\* Mutant: a call that is not enabled runs the method all the same.
MethodRun_IgnoresEnable(uses, mbt, g, en, method) ==
    \E t \in TransactionsByMethod(mbt, method) : g[t]

\* Method.data_out: one Record of the method, made by Method.__init__.
data_out(method) == <<method, "data_out">>

\* What Method.__call__ returns to a caller: return self.data_out
Method_call(caller, method) == data_out(method)

\* Mutant: the enable of a use does not depend on whether its caller runs.
MethodRun_Ungated(uses, mbt, g, en, method) ==
    \E t \in TransactionsByMethod(mbt, method) :
        g[t] /\ en[<<Source(uses, mbt, t, method), method>>]

RECURSIVE MethodRun(_, _, _, _, _)
\* granted[n] = transaction.grant & enable ; method.run = granted.any()
\* The enable of a use is the signal Method.__call__ made for it: it is assigned
\* the enable argument inside the body of the caller, so it is 0 unless the
\* caller is granted (a transaction) or runs (a method).
MethodRun(uses, mbt, g, en, method) ==
    \E t \in TransactionsByMethod(mbt, method) :
        LET src == Source(uses, mbt, t, method)
        IN  /\ g[t]
            /\ en[<<src, method>>]
            /\ IsTransaction(src) \/ MethodRun(uses, mbt, g, en, src)

----------------------------------------------------------------------------
(* The designs explored                                                    *)

\* Without relations: at most this many declarations (calls, nonexclusive
\* flags, enable signals) in one design.
MaxDecl == 3
\* At most this many calls in a design that declares a relation.
MaxRelUses == 2
\* At most this many declarations (simultaneous_with, calls, relations) in a
\* design that declares simultaneity.
MaxSimDecl == 4
\* At most this many calls whose enable is a signal.
MaxVarEnable == 1
\* At most this many simultaneous_with declarations.
MaxSimWith == 2
\* At most this many add_conflict calls in a design that declares simultaneity.
MaxSimConflicts == 1
\* At most this many relations in a design of transactions without methods.
MaxPrioRelations == 3
\* At most this many recorded calls in a design built call by call.
MaxCalls == 3
\* At most this many calls in a design with a nonexclusive method.
MaxSharedUses == 3
\* At most this many declared conflicts in a design with a nonexclusive method.
MaxSharedConflicts == 1
\* At most this many calls in a design run by the round-robin scheduler alone.
MaxFairUses == 3

Three == SubSeq(AllTransactions, 1, 3)

\* The calls a design may make: a transaction calls a method, M1 calls M2.
UseEdges(trs, ms) == (Range(trs) \X ms) \cup ({<<"M1", "M2">>} \cap (ms \X ms))

UsesOf(trs, U) == [e \in Range(trs) \cup Methods |-> {m \in Methods : <<e, m>> \in U}]

\* A fixed listing of the elements.
ElemListing == AllTransactions \o <<"M1", "M2">>

\* The pairs (a, b) of elements with a listed before b.
ForwardPairs(E) == {p \in E \X E : IndexOf(ElemListing, p[1]) < IndexOf(ElemListing, p[2])}

\* a.add_conflict(b, priority) and a.schedule_before(b)
RelationChoices(E) ==
    {[start |-> p[1], end |-> p[2], priority |-> pr, conflict |-> TRUE] :
        p \in ForwardPairs(E), pr \in {"UNDEFINED", "LEFT", "RIGHT"}}
    \cup {[start |-> p[1], end |-> p[2], priority |-> "LEFT", conflict |-> FALSE] :
             p \in {q \in E \X E : q[1] # q[2]}}

\* a.add_conflict(b) between two transactions, declared by either of them
ConflictChoices(E) ==
    {[start |-> p[1], end |-> p[2], priority |-> "UNDEFINED", conflict |-> TRUE] :
        p \in {q \in E \X E : q[1] # q[2]}}

\* a.simultaneous_with(b), a a transaction
SimChoices(trs, ms) == {p \in ForwardPairs(Range(trs) \cup ms) : p[1] \in Range(trs)}

\* Bodies are defined methods first or transactions first.
MethodsFirst == <<"M1", "M2", "T1", "T2", "T3", "T4">>
TransactionsFirst == <<"T1", "T2", "T3", "T4", "M1", "M2">>
DefOrderOf(listing) == [e \in Range(listing) |-> IndexOf(listing, e) - 1]

RECURSIVE Bounded(_, _)
\* The subsets of S of at most n elements.
Bounded(S, n) == IF n = 0 THEN {{}}
                 ELSE LET B == Bounded(S, n - 1) IN B \cup {b \cup {x} : b \in B, x \in S}

\* No block of the core is instantiated.
NoCombiner == args = <<>> /\ valid_bits = <<>> /\ ret = <<>>
NoEIR == eir = <<>> /\ reported = <<>>
NoFRAT == entries = <<>> /\ rename_out = <<>> /\ renames = <<>>
NoFreeRF == free_rf_reg = 0 /\ free_rf_level = 0 /\ free_rf_written = <<>>
NoMerger == sim_q = <<>> /\ sim_groups = {} /\ sim_conflicts = <<>> /\ sim_added = <<>>
NoRF ==
    /\ rf_entries = <<>> /\ rf_valids = <<>> /\ bypass_valids = <<>> /\ bypass_data = <<>>
    /\ read_ret = <<>> /\ rf_calls = {}
NoRRAT ==
    /\ initialized = FALSE /\ rl_idx = 0 /\ rrat_entries = <<>> /\ write_ready = FALSE
    /\ peeked = <<>> /\ rrat_writes = <<>>
NoFifoRS ==
    /\ front = 0 /\ back = 0 /\ reserved = {} /\ rs_ret = <<>>
    /\ last_ident = <<>> /\ outstanding = <<>>
NoMinValue == min_inputs = <<>> /\ min_result = <<>>
NoCore ==
    /\ NoCombiner /\ NoEIR /\ NoFRAT /\ NoFreeRF /\ NoMerger /\ NoRF /\ NoRRAT /\ NoFifoRS /\ NoMinValue
    /\ rob_start_idx = 0

\* No design is given to a transaction manager.
NoDesign ==
    /\ transactions = <<>> /\ method_uses = <<>>
    /\ nonexclusive = {} /\ var_enable = {} /\ relations = {} /\ simultaneous = {}
    /\ def_order = <<>>
    /\ cc_scheduler = "eager"
    /\ pc = "none"
    /\ error = ""
    /\ merged = <<>>
    /\ methods_by_transaction = <<>>
    /\ cgr = <<>> /\ rgr = <<>> /\ porder = <<>> /\ ccs = <<>>
    /\ request = <<>> /\ ready = <<>> /\ enable = <<>>
    /\ grant = <<>> /\ run = <<>>
    /\ grant_reg = <<>>

\* The state after the declarations of a design, before elaborate().
Declared(trs, U, N, V, R, S, listing, sched) ==
    /\ transactions = trs
    /\ method_uses = UsesOf(trs, U)
    /\ nonexclusive = N
    /\ var_enable = V
    /\ relations = R
    /\ simultaneous = S
    /\ def_order = DefOrderOf(listing)
    /\ cc_scheduler = sched
    /\ pc = "declared"
    /\ error = ""
    /\ merged = <<>>
    /\ methods_by_transaction = <<>>
    /\ cgr = <<>> /\ rgr = <<>> /\ porder = <<>> /\ ccs = <<>>
    /\ request = <<>> /\ ready = <<>> /\ enable = <<>>
    /\ grant = <<>> /\ run = <<>>
    /\ grant_reg = <<>>
    /\ NoCore

\* Three transactions and two methods; no relation, no simultaneity.
InitPlain ==
    \E U \in Bounded(UseEdges(Three, Methods), MaxDecl) :
    \E N \in SUBSET {u[2] : u \in U} :
    \E V \in Bounded(U, MaxVarEnable) :
    \E sched \in {"eager", "roundrobin"} :
        /\ Cardinality(U) + Cardinality(N) + Cardinality(V) <= MaxDecl
        /\ Declared(Three, U, N, V, {}, {}, MethodsFirst, sched)

\* Three transactions and two methods; one relation.
InitRel ==
    \E U \in Bounded(UseEdges(Three, Methods), MaxRelUses) :
    \E r \in RelationChoices(Range(Three) \cup Methods) :
    \E listing \in IF r.conflict THEN {MethodsFirst} ELSE {MethodsFirst, TransactionsFirst} :
    \E sched \in {"eager", "roundrobin"} :
        Declared(Three, U, {}, {}, {r}, {}, listing, sched)

\* Four transactions and one method; simultaneity, and at most one conflict
\* declared between T1 and T3.
InitSim ==
    \E S \in Bounded(SimChoices(AllTransactions, {"M1"}), MaxSimWith) \ {{}} :
    \E U \in Bounded(UseEdges(AllTransactions, {"M1"}), MaxSimDecl) :
    \E R \in Bounded(ConflictChoices({"T1", "T3"}), MaxSimConflicts) :
    \E sched \in {"eager", "roundrobin"} :
        /\ Cardinality(S) + Cardinality(U) + Cardinality(R) <= MaxSimDecl
        /\ Declared(AllTransactions, U, {}, {}, R, S, MethodsFirst, sched)

\* Three transactions, no method; two or more relations between them.
InitPrio ==
    \E R \in Bounded(RelationChoices(Range(Three)), MaxPrioRelations) :
    \E sched \in {"eager", "roundrobin"} :
        /\ Cardinality(R) >= 2
        /\ Declared(Three, {}, {}, {}, R, {}, MethodsFirst, sched)

\* Three transactions and two methods whose bodies are still being written:
\* no call is recorded yet.
InitUse ==
    \E sched \in {"eager", "roundrobin"} :
        /\ transactions = Three
        /\ method_uses = UsesOf(Three, {})
        /\ nonexclusive = {} /\ var_enable = {} /\ relations = {} /\ simultaneous = {}
        /\ def_order = DefOrderOf(MethodsFirst)
        /\ cc_scheduler = sched
        /\ pc = "body"
        /\ error = ""
        /\ merged = <<>>
        /\ methods_by_transaction = <<>>
        /\ cgr = <<>> /\ rgr = <<>> /\ porder = <<>> /\ ccs = <<>>
        /\ request = <<>> /\ ready = <<>> /\ enable = <<>>
        /\ grant = <<>> /\ run = <<>>
        /\ grant_reg = <<>>
        /\ NoCore

\* Three transactions calling a nonexclusive method M1 and an exclusive method
\* M2; at most one conflict declared, between T2 and T3.
InitShared ==
    \E U \in Bounded(Range(Three) \X Methods, MaxSharedUses) :
    \E V \in Bounded(U, MaxVarEnable) :
    \E R \in Bounded({r \in ConflictChoices({"T2", "T3"}) : r.start = "T2"}, MaxSharedConflicts) :
    \E sched \in {"eager", "roundrobin"} :
        Declared(Three, U, {"M1"}, V, R, {}, MethodsFirst, sched)

\* Three transactions, some of them calling the exclusive method M1; the
\* round-robin scheduler.
InitFair ==
    \E U \in Bounded(Range(Three) \X {"M1"}, MaxFairUses) :
        Declared(Three, U, {}, {}, {}, {}, MethodsFirst, "roundrobin")

Init == InitPlain \/ InitRel \/ InitSim \/ InitPrio \/ InitShared \/ InitFair

----------------------------------------------------------------------------
(* Writing the bodies: TransactionBase.use_method                          *)

\* Mutant: a repeated call replaces the recorded use instead of raising.
use_method_Overwrites(uses, signals, source, method, enable_is_signal) ==
    [raised |-> FALSE,
     method_uses |-> [uses EXCEPT ![source] = @ \cup {method}],
     var_enable |-> IF enable_is_signal THEN signals \cup {<<source, method>>}
                    ELSE signals \ {<<source, method>>}]

\* source.use_method(method, arg, enable): uses is method_uses of every element,
\* signals the recorded uses whose enable is a signal.
use_method(uses, signals, source, method, enable_is_signal) ==
    IF method \in uses[source]
    THEN [raised |-> TRUE, method_uses |-> uses, var_enable |-> signals]
    ELSE [raised |-> FALSE,
          method_uses |-> [uses EXCEPT ![source] = @ \cup {method}],
          var_enable |-> IF enable_is_signal THEN signals \cup {<<source, method>>}
                         ELSE signals]

\* The number of recorded calls.
RecordedCalls == Cardinality({u \in UseEdges(Three, Methods) : u[2] \in method_uses[u[1]]})

\* A body calls a method.
Call ==
    /\ pc = "body"
    /\ \E u \in UseEdges(Three, Methods) : \E enable_is_signal \in BOOLEAN :
          /\ u[2] \notin method_uses[u[1]] => RecordedCalls < MaxCalls
          /\ enable_is_signal => Cardinality(var_enable) < MaxVarEnable
          /\ LET r == use_method(method_uses, var_enable, u[1], u[2], enable_is_signal)
             IN  /\ method_uses' = r.method_uses
                 /\ var_enable' = r.var_enable
                 /\ pc' = IF r.raised THEN "error" ELSE "body"
                 /\ error' = IF r.raised THEN CalledTwice ELSE error
    /\ UNCHANGED <<core_vars, transactions, nonexclusive, relations, simultaneous, def_order, cc_scheduler,
                   merged, methods_by_transaction, cgr, rgr, porder, ccs, signal_vars, grant_reg>>

\* All bodies are written.
Define ==
    /\ pc = "body"
    /\ pc' = "declared"
    /\ UNCHANGED <<core_vars, design_vars, build_vars, signal_vars, grant_reg, error>>

----------------------------------------------------------------------------
(* elaborate()                                                             *)

\* Each component as the list its scheduler works on: the eager scheduler sorts
\* it, the round-robin scheduler enumerates a set.
ComponentOrders(sched, components) ==
    IF sched = "eager"
    THEN {[i \in 1..Len(components) |-> SeqOf(components[i], AllTransactions \o SynthNames)]}
    ELSE {c \in [1..Len(components) -> UNION {Perms(components[i]) : i \in 1..Len(components)}] :
             \A i \in 1..Len(components) : Range(c[i]) = components[i]}

\* The exceptions the build can end with: MethodMap raises first; the loop over
\* the relations raises at the first relation that fails either check; the
\* topological sort comes last.
BuildErrors(map_ok, order_error, key_error, sorted) ==
    IF ~map_ok THEN {CalledTwice}
    ELSE IF order_error \/ key_error
         THEN (IF order_error THEN {ScheduledBefore} ELSE {})
              \cup (IF key_error THEN {KeyError} ELSE {})
    ELSE IF ~sorted THEN {CycleError}
    ELSE {}

\* The build for one iteration order of the final groups.
Build(order) ==
    LET trs == MergedTransactions(transactions, Range(order), order)
        uses == MergedUses(method_uses, order)
        mm == MethodMap(trs, uses)
        mbt == mm.methods_by_transaction
        rels == CollectedRelations(mbt, relations)
        edges == ImplicitEdges(mbt, nonexclusive) \cup ExplicitEdges(mbt, rels)
        keyerr == EdgeKeyError(mbt, edges)
        pgr == IF keyerr THEN <<>> ELSE PriorityGraph(mbt, edges)
        orders == IF keyerr THEN {} ELSE {o \in StaticOrders(trs, pgr) : Len(o) = Len(trs)}
    IN  [ok |-> mm.ok /\ ~ScheduleOrderError(rels, def_order) /\ ~keyerr /\ orders # {},
         errors |-> BuildErrors(mm.ok, ScheduleOrderError(rels, def_order), keyerr, orders # {}),
         transactions |-> trs, method_uses |-> uses, methods_by_transaction |-> mbt,
         edges |-> edges, orders |-> orders]

ElaborateOk(order, b) ==
    \E o \in b.orders :
    \E c \in ComponentOrders(cc_scheduler,
                 graph_ccs(RelationGraph(b.methods_by_transaction, b.edges), b.transactions, {})) :
        /\ pc' = "elaborated"
        /\ transactions' = b.transactions
        /\ method_uses' = b.method_uses
        /\ merged' = [i \in 1..Len(order) |-> order[i]]
        /\ methods_by_transaction' = b.methods_by_transaction
        /\ cgr' = ConflictGraph(b.methods_by_transaction, b.edges)
        /\ rgr' = RelationGraph(b.methods_by_transaction, b.edges)
        /\ porder' = PriorityOrder(o)
        /\ ccs' = c
        /\ grant_reg' = [i \in 1..Len(c) |-> 1]
        /\ UNCHANGED <<core_vars, design_vars, signal_vars, error>>

\* elaborate() raises: nothing is built.
ElaborateError(raised) ==
    /\ pc' = "error"
    /\ error' = raised
    /\ UNCHANGED <<core_vars, design_vars, build_vars, signal_vars, grant_reg>>

Elaborate ==
    /\ pc = "declared"
    /\ LET mm0 == MethodMap(transactions, method_uses)
       IN  IF ~mm0.ok THEN ElaborateError(CalledTwice)
           ELSE \E order \in Perms(final_simultaneous(mm0.methods_by_transaction, simultaneous)) :
                    LET b == Build(order)
                    IN  IF b.ok THEN ElaborateOk(order, b)
                        ELSE \E raised \in b.errors : ElaborateError(raised)

----------------------------------------------------------------------------
(* One clock cycle                                                         *)

\* The transactions the design declared (joined ones included).
Declared_transactions ==
    SelectSeq(AllTransactions,
              LAMBDA t : t \in Range(transactions) \cup UNION {merged[i] : i \in DOMAIN merged})

\* The methods some declared element calls.
CalledMethods == UNION {method_uses[e] : e \in DOMAIN method_uses} \cap Methods

\* The calls of the elaborated design.
Uses == {u \in (DOMAIN method_uses) \X AllMethods : u[2] \in method_uses[u[1]]}

\* The combinational logic settles for the inputs req (requests of the declared
\* transactions), rdy (ready of the declared methods) and en (enable signals).
Cycle ==
    /\ pc = "elaborated"
    /\ \E req \in [Range(Declared_transactions) -> BOOLEAN] :
       \E rdy \in [CalledMethods -> BOOLEAN] :
       \E en \in [var_enable -> BOOLEAN] :
          LET req_all == [t \in Range(Declared_transactions) \cup Range(transactions) |->
                             IF t \in SynthTransactions THEN TRUE ELSE req[t]]
              \* method.ready = transaction.request for the method of a joined transaction
              rdy_all == [m \in CalledMethods \cup MapMethods(methods_by_transaction) |->
                             IF m \in JoinedMethods
                             THEN req[CHOOSE t \in OrigTransactions : MethodOf[t] = m]
                             ELSE rdy[m]]
              en_all == [u \in Uses |-> IF u \in var_enable THEN en[u] ELSE TRUE]
              g == Schedulers(cc_scheduler, ccs, grant_reg, porder,
                              methods_by_transaction, cgr, req_all, rdy_all)
              r == [m \in DOMAIN rdy_all |->
                       MethodRun(method_uses, methods_by_transaction, g, en_all, m)]
          IN  /\ request' = req_all
              /\ ready' = rdy_all
              /\ enable' = en_all
              \* method.run = transaction.grant for the method of a joined transaction
              /\ grant' = [t \in DOMAIN req_all |->
                              IF t \in DOMAIN g THEN g[t] ELSE r[MethodOf[t]]]
              /\ run' = r
    /\ pc' = "cycle"
    /\ UNCHANGED <<core_vars, design_vars, build_vars, grant_reg, error>>

\* The clock edge: Scheduler.grant_reg takes Scheduler.grant.
Tick ==
    /\ pc = "cycle"
    /\ pc' = "elaborated"
    /\ grant_reg' = [i \in DOMAIN ccs |->
                        IF cc_scheduler = "eager" THEN grant_reg[i]
                        ELSE SchedulerGrant(Len(ccs[i]), grant_reg[i],
                                 RoundRobinRequests(ccs[i], methods_by_transaction, request, ready))]
    /\ request' = <<>> /\ ready' = <<>> /\ enable' = <<>> /\ grant' = <<>> /\ run' = <<>>
    /\ UNCHANGED <<core_vars, design_vars, build_vars, error>>

Next == Elaborate \/ Cycle \/ Tick

Spec == Init /\ [][Next]_vars

SpecPlain == InitPlain /\ [][Next]_vars
SpecRel == InitRel /\ [][Next]_vars
SpecSim == InitSim /\ [][Next]_vars
SpecPrio == InitPrio /\ [][Next]_vars
SpecShared == InitShared /\ [][Next]_vars
\* The clock runs: every cycle settles and ends.
SpecFair == InitFair /\ [][Next]_vars /\ WF_vars(Cycle) /\ WF_vars(Tick)

\* A design written call by call, then elaborated and run.
NextUse == Call \/ Define \/ Elaborate \/ Cycle \/ Tick
SpecUse == InitUse /\ [][NextUse]_vars

----------------------------------------------------------------------------
(* Vocabulary of the properties                                            *)

RECURSIVE UsedFrom(_, _)
\* The methods reachable from a set of methods through chains of calls.
UsedFrom(uses, S) ==
    LET N == S \cup UNION {uses[m] : m \in S} IN IF N = S THEN S ELSE UsedFrom(uses, N)

\* The methods element e uses, directly or through other methods.
MethodsUsedBy(e) == UsedFrom(method_uses, method_uses[e])

\* The transactions the manager schedules (after the merge).
Scheduled == Range(transactions)

\* A scheduled transaction may run: it requests and all it uses is ready.
CanRun(t) == request[t] /\ \A m \in MethodsUsedBy(t) : ready[m]

\* The enable of the call through which transaction t reaches method m.
EnableOf(t, m) ==
    \A src \in {t} \cup MethodsUsedBy(t) : m \in method_uses[src] => enable[<<src, m>>]

----------------------------------------------------------------------------
(* C1: in every cycle, with either scheduler, no two distinct transactions *)
(* joined by an edge of the conflict graph are both granted.               *)
C1_NoConflictingGrants ==
    pc = "cycle" =>
        \A a \in DOMAIN cgr : \A b \in cgr[a] : a # b => ~(grant[a] /\ grant[b])

\* Two conflicting transactions both may run, under the round-robin scheduler
\* one of them is granted.
C1_Witness ==
    /\ pc = "cycle"
    /\ cc_scheduler = "roundrobin"
    /\ \E a \in DOMAIN cgr : \E b \in cgr[a] :
           a # b /\ CanRun(a) /\ CanRun(b) /\ grant[a] /\ ~grant[b]

(* C2: in every cycle, with either scheduler, a scheduled transaction is   *)
(* granted only if it requests and every method it uses, directly or       *)
(* through other methods, is ready.                                        *)
C2_GrantImpliesRequestAndReady ==
    pc = "cycle" =>
        \A t \in Scheduled :
            grant[t] => request[t] /\ \A m \in MethodsUsedBy(t) : ready[m]

\* A transaction that reaches a method only through another method requests,
\* all it uses is ready, and it is granted.
C2_Witness ==
    /\ pc = "cycle"
    /\ \E t \in Scheduled :
           /\ MethodsUsedBy(t) # method_uses[t]
           /\ CanRun(t) /\ grant[t]

(* C3: in every cycle, for every method that is not nonexclusive, at most  *)
(* one scheduled transaction that uses it (directly or transitively) is    *)
(* granted, so at most one call with enable=1 reaches it.                  *)
C3_ExclusiveMethodOneCaller ==
    pc = "cycle" =>
        \A m \in (UNION {MethodsUsedBy(t) : t \in Scheduled}) \ nonexclusive :
            /\ Cardinality({t \in Scheduled : m \in MethodsUsedBy(t) /\ grant[t]}) <= 1
            /\ Cardinality({t \in Scheduled :
                               m \in MethodsUsedBy(t) /\ grant[t] /\ EnableOf(t, m)}) <= 1

\* Two transactions that may run share an exclusive method, one of them through
\* another method; one is granted and the method runs.
C3_Witness ==
    /\ pc = "cycle"
    /\ \E m \in Methods \ nonexclusive : \E a, b \in Scheduled :
           /\ a # b
           /\ m \in method_uses[a] /\ m \in MethodsUsedBy(b) \ method_uses[b]
           /\ CanRun(a) /\ CanRun(b)
           /\ (grant[a] \/ grant[b]) /\ run[m]

----------------------------------------------------------------------------
(* Simultaneity                                                            *)

\* The transactions _simultaneous joined.
Joined == UNION {merged[i] : i \in DOMAIN merged}

\* The merged transactions whose group contains t.
GroupsOf(t) == {SynthNames[i] : i \in {j \in DOMAIN merged : t \in merged[j]}}

\* The transactions that share a group with t.
GroupMates(t) == UNION {merged[i] : i \in {j \in DOMAIN merged : t \in merged[j]}}

\* The method map of the declared design, before the merge.
DeclaredMap == MethodMap(Declared_transactions, method_uses).methods_by_transaction

\* Two declared transactions conflict: they use one exclusive method, or
\* add_conflict was called on one with the other.
DeclaredConflict(t, u) ==
    \/ (MethodsUsedBy(t) \cap MethodsUsedBy(u)) \ nonexclusive # {}
    \/ \E r \in relations : r.conflict /\ {r.start, r.end} = {t, u}

(* C4: transactions linked by simultaneity declarations, directly or       *)
(* through a chain of them, have equal grants in every cycle.              *)
C4_LinkedGrantsEqual ==
    pc = "cycle" =>
        \A d \in simultaneous :
            IsTransaction(d[1]) /\ IsTransaction(d[2]) => grant[d[1]] = grant[d[2]]

(* C5: a transaction merged into a simultaneity group is granted only in   *)
(* cycles in which its request is asserted and every method it uses,       *)
(* directly or transitively, is ready.                                     *)
C5_JoinedGrantImpliesReady ==
    pc = "cycle" =>
        \A t \in Joined :
            grant[t] => request[t] /\ \A m \in MethodsUsedBy(t) : ready[m]

(* C6: a transaction merged into a simultaneity group is never granted in  *)
(* the same cycle as a transaction outside its group that conflicts with   *)
(* it, by a shared exclusive method or by add_conflict.                    *)
C6_JoinedRespectsConflicts ==
    pc = "cycle" =>
        \A t \in Joined : \A u \in Range(Declared_transactions) \ GroupMates(t) :
            DeclaredConflict(t, u) => ~(grant[t] /\ grant[u])

(* C7: a constituent of a merged group is granted exactly when the merged  *)
(* transaction of a group containing it is granted, and in that cycle      *)
(* every method the constituent calls with enable=1 runs.                  *)
C7_ConstituentRunsFully ==
    pc = "cycle" =>
        \A t \in Joined :
            /\ grant[t] <=> \E s \in GroupsOf(t) : grant[s]
            /\ grant[t] => \A m \in method_uses[t] : enable[<<t, m>>] => run[m]

(* C8: after the fixed point no final group contains two alternative       *)
(* callers of one method that come from expanding the same                 *)
(* simultaneous_with declaration.                                          *)
C8_NoAlternativesInOneGroup ==
    pc \in {"elaborated", "cycle"} =>
        \A i \in DOMAIN merged : \A d \in simultaneous :
            Cardinality({g \in conflict_for(DeclaredMap, d) : g \subseteq merged[i]}) <= 1

----------------------------------------------------------------------------
(* The eager scheduler                                                     *)

(* C9: under the eager scheduler a transaction that requests and whose     *)
(* methods are all ready is granted unless a transaction that has a        *)
(* conflict edge with it is granted in that cycle.                         *)
C9_EagerMaximal ==
    pc = "cycle" /\ cc_scheduler = "eager" =>
        \A t \in Scheduled :
            CanRun(t) /\ ~grant[t] => \E u \in cgr[t] : u # t /\ grant[u]

\* A chain of conflicts a - b - c, with no edge between a and c, all three may
\* run: a and c are granted, b is not.
C9_Witness ==
    /\ pc = "cycle" /\ cc_scheduler = "eager"
    /\ \E a, b, c \in Scheduled :
          /\ a # c /\ b \in cgr[a] /\ b \in cgr[c] /\ c \notin cgr[a]
          /\ CanRun(a) /\ CanRun(b) /\ CanRun(c)
          /\ grant[a] /\ ~grant[b] /\ grant[c]

\* The scheduled transactions that use method R.
Callers(R) == {t \in Scheduled : R \in MethodsUsedBy(t)}

\* At least three transactions call the exclusive method R and nothing else.
ThreeCallers(R) ==
    /\ R \in Methods \ nonexclusive
    /\ Cardinality(Callers(R)) >= 3
    /\ \A t \in Callers(R) : MethodsUsedBy(t) = {R}

\* The requesting caller of R that was declared first.
FirstRequesting(R) ==
    CHOOSE t \in Callers(R) :
        /\ request[t]
        /\ \A u \in Callers(R) :
              request[u] => IndexOf(transactions, t) <= IndexOf(transactions, u)

(* C10: three transactions declared in order all call one exclusive method *)
(* R, no priority is declared, the scheduler is the eager one: in a cycle  *)
(* where R is ready and one of them requests, exactly one is granted, the  *)
(* earliest declared among the requesting ones.                            *)
C10_EarliestDeclaredWins ==
    pc = "cycle" /\ cc_scheduler = "eager" /\ relations = {} =>
        \A R \in Methods :
            ThreeCallers(R) /\ ready[R] /\ (\E t \in Callers(R) : request[t]) =>
                \A t \in Callers(R) : grant[t] <=> t = FirstRequesting(R)

\* The first declared caller does not request, the two others do: the second
\* is granted, the third is not.
C10_Witness ==
    /\ pc = "cycle" /\ cc_scheduler = "eager" /\ relations = {}
    /\ \E R \in Methods :
          /\ ThreeCallers(R) /\ ready[R]
          /\ Callers(R) = {"T1", "T2", "T3"}
          /\ ~request["T1"] /\ request["T2"] /\ request["T3"]
          /\ grant["T2"] /\ ~grant["T3"] /\ ~grant["T1"]

----------------------------------------------------------------------------
(* Priorities and the order of the transactions                            *)

\* The add_conflict relations with a priority, declared between transactions.
PrioritizedConflicts ==
    {r \in relations : /\ r.conflict /\ r.priority \in {"LEFT", "RIGHT"}
                       /\ IsTransaction(r.start) /\ IsTransaction(r.end)}

\* The side add_conflict(..., priority) prefers, and the other one.
Preferred(r) == IF r.priority = "LEFT" THEN r.start ELSE r.end
Deferred(r) == IF r.priority = "LEFT" THEN r.end ELSE r.start

(* C11: after A.add_conflict(B, priority) between transactions, under the  *)
(* eager scheduler, the preferred one precedes the other in the order      *)
(* fixed at build time, and in every cycle where both may run and no       *)
(* other conflicting transaction of the preferred one is granted, the      *)
(* preferred one is granted and the other is not.                          *)
C11_PreferredWins ==
    pc \in {"elaborated", "cycle"} /\ cc_scheduler = "eager" =>
        \A r \in PrioritizedConflicts :
            /\ porder[Preferred(r)] < porder[Deferred(r)]
            /\ (/\ pc = "cycle"
                /\ CanRun(Preferred(r)) /\ CanRun(Deferred(r))
                /\ \A u \in cgr[Preferred(r)] \ {Deferred(r)} : ~grant[u])
               => grant[Preferred(r)] /\ ~grant[Deferred(r)]

\* priority=RIGHT prefers the transaction declared later: both may run, the
\* later one is granted.
C11_Witness ==
    /\ pc = "cycle" /\ cc_scheduler = "eager"
    /\ \E r \in PrioritizedConflicts :
          /\ r.priority = "RIGHT"
          /\ IndexOf(transactions, r.start) < IndexOf(transactions, r.end)
          /\ CanRun(r.start) /\ CanRun(r.end)
          /\ grant[r.end] /\ ~grant[r.start]

\* The scheduled transactions that are element e or use it.
TransactionsOf(e) == {t \in Scheduled : t = e \/ e \in MethodsUsedBy(t)}

\* The relations declared with schedule_before.
ScheduleBefore == {r \in relations : ~r.conflict}

ElaboratedPriorityGraph ==
    PriorityGraph(methods_by_transaction,
                  ImplicitEdges(methods_by_transaction, nonexclusive)
                  \cup ExplicitEdges(methods_by_transaction,
                                     CollectedRelations(methods_by_transaction, relations)))

RECURSIVE DeclarationFirst(_, _)
\* The topological order that always places, among the transactions whose
\* predecessors are all placed, the one declared earliest.
DeclarationFirst(pg, placed) ==
    LET eligible == {t \in DOMAIN pg : t \notin Range(placed) /\ pg[t] \subseteq Range(placed)}
    IN  IF eligible = {} THEN placed
        ELSE DeclarationFirst(pg, Append(placed,
                 CHOOSE t \in eligible :
                     \A u \in eligible : IndexOf(transactions, t) <= IndexOf(transactions, u)))

(* C13: the global order is the topological order of the priority graph    *)
(* that places, among the transactions eligible at once, the one declared  *)
(* earliest first.                                                         *)
C13_TiesByDeclarationOrder ==
    pc \in {"elaborated", "cycle"} =>
        porder = PriorityOrder(DeclarationFirst(ElaboratedPriorityGraph, <<>>))

----------------------------------------------------------------------------
(* Build errors                                                            *)

\* The declared transactions that are element e or use it.
Users(e) == {t \in Range(Declared_transactions) : t = e \/ e \in MethodsUsedBy(t)}

\* The declarations give transaction a priority over transaction b.
DeclaredBefore(a, b) ==
    \E r \in relations :
        \/ r.priority = "LEFT" /\ a \in Users(r.start) /\ b \in Users(r.end)
        \/ r.priority = "RIGHT" /\ a \in Users(r.end) /\ b \in Users(r.start)

RECURSIVE After(_)
\* The transactions that must come after one of S, through any chain.
After(S) ==
    LET N == S \cup {b \in Range(Declared_transactions) : \E a \in S : DeclaredBefore(a, b)}
    IN  IF N = S THEN S ELSE After(N)

\* The declared priorities are cyclic.
CyclicPriorities ==
    \E a, b \in Range(Declared_transactions) : DeclaredBefore(a, b) /\ a \in After({b})

\* Nothing was built: no order, no components, no grant logic.
NoSchedule == porder = <<>> /\ ccs = <<>> /\ cgr = <<>> /\ grant = <<>>

DefinedAfterwards(r) == ~r.conflict /\ def_order[r.end] < def_order[r.start]

DoubleReach(t) ==
    \E m \in Methods :
        Cardinality({k \in {t} \cup MethodsUsedBy(t) : m \in method_uses[k]}) >= 2

(* C16: a call that returns has recorded a method the body did not use     *)
(* yet and leaves the earlier uses as they were; a repeated call raises    *)
(* and changes nothing; building the usage map raises whenever a           *)
(* transaction reaches one method more than once.                          *)
C16_UsedAtMostOnce ==
    [][/\ pc = "body" /\ pc' = "body" =>
            \E u \in UseEdges(Three, Methods) :
                /\ u[2] \notin method_uses[u[1]]
                /\ method_uses' = [method_uses EXCEPT ![u[1]] = @ \cup {u[2]}]
                /\ var_enable \subseteq var_enable'
                /\ var_enable' \ var_enable \subseteq {u}
       /\ pc = "body" /\ pc' = "error" =>
            error' = CalledTwice /\ method_uses' = method_uses /\ var_enable' = var_enable
       /\ pc = "declared" /\ (\E t \in Range(transactions) : DoubleReach(t)) =>
            pc' = "error" /\ error' = CalledTwice /\ NoSchedule']_vars

\* A repeated call raised: the recorded use, whose enable is a signal, is still
\* there, and no transaction reaches a method twice.
C16_Witness ==
    /\ pc = "error" /\ error = CalledTwice
    /\ var_enable # {}
    /\ \A t \in Range(transactions) : ~DoubleReach(t)

----------------------------------------------------------------------------
(* The usage map                                                           *)

(* C17: when the usage map is built without error, methods_by_transaction  *)
(* of every registered transaction is exactly the set of methods reachable *)
(* from it through chains of uses, and transactions_by_method of every     *)
(* method is exactly the set of registered transactions that reach it.     *)
C17_MethodMapExact ==
    pc \in {"elaborated", "cycle"} =>
        /\ DOMAIN methods_by_transaction = Scheduled
        /\ \A t \in Scheduled : methods_by_transaction[t] = MethodsUsedBy(t)
        /\ \A m \in AllMethods :
              TransactionsByMethod(methods_by_transaction, m)
                  = {t \in Scheduled : m \in MethodsUsedBy(t)}

\* The map was built for a design where one transaction reaches a method only
\* through another method and a second transaction calls that method itself.
C17_Witness ==
    /\ pc = "elaborated"
    /\ \E m \in Methods : \E a, b \in Scheduled :
          /\ a # b
          /\ m \in MethodsUsedBy(a) \ method_uses[a]
          /\ m \in method_uses[b]
          /\ {a, b} \subseteq TransactionsByMethod(methods_by_transaction, m)

----------------------------------------------------------------------------
(* The groups _simultaneous keeps                                          *)

\* The closure computed for the declared design, and the groups kept.
DeclaredClosure == SimClosure(DeclaredMap, simultaneous)
KeptGroups == {merged[i] : i \in DOMAIN merged}

(* C18: the groups kept after the fixed point are exactly the inclusion-   *)
(* maximal groups of the closure, and every group obtained by expanding a  *)
(* declaration is inside at least one kept group.                          *)
C18_KeptGroupsMaximal ==
    pc = "elaborated" =>
        /\ KeptGroups = {g \in DeclaredClosure :
                            \A h \in DeclaredClosure : g \subseteq h => g = h}
        /\ \A d \in simultaneous : \A g \in conflict_for(DeclaredMap, d) :
              \E k \in KeptGroups : g \subseteq k

\* Two declarations were expanded and merged: the closure holds a group that is
\* not kept, inside a kept group larger than any expanded one.
C18_Witness ==
    /\ pc = "elaborated"
    /\ Cardinality(simultaneous) = 2
    /\ \E g \in DeclaredClosure \ KeptGroups : \E k \in KeptGroups :
          g \subseteq k /\ Cardinality(k) >= 3

----------------------------------------------------------------------------
(* The run signals                                                         *)

RECURSIVE EnabledChain(_, _)
\* Some chain of calls leads from element e to method m with the enable of
\* every call on it equal to 1.
EnabledChain(e, m) ==
    \E k \in method_uses[e] :
        enable[<<e, k>>] /\ (k = m \/ EnabledChain(k, m))

\* The calls made with enable=0 in this cycle.
DisabledCalls == {u \in DOMAIN enable : ~enable[u]}

(* C19: in every cycle a method of the usage map runs if and only if some  *)
(* granted transaction reaches it by calls that are all enabled; a call    *)
(* with enable=0 still makes the granted caller wait for the method's      *)
(* readiness and conflict with the other callers of the method.            *)
C19_RunIsGrantAndEnable ==
    pc = "cycle" =>
        /\ \A m \in MapMethods(methods_by_transaction) :
              run[m] <=> \E t \in Scheduled : grant[t] /\ EnabledChain(t, m)
        /\ \A u \in DisabledCalls : \A t \in Scheduled :
              u[1] \in {t} \cup MethodsUsedBy(t) =>
                  /\ grant[t] => ready[u[2]]
                  /\ u[2] \notin nonexclusive =>
                        \A v \in Scheduled \ {t} : u[2] \in MethodsUsedBy(v) => v \in cgr[t]

\* A granted transaction calls M1 with enable=0 and M1 calls M2: neither method
\* runs.
C19_Witness ==
    /\ pc = "cycle"
    /\ \E t \in Scheduled :
          /\ grant[t] /\ method_uses[t] = {"M1"} /\ method_uses["M1"] = {"M2"}
          /\ ~enable[<<t, "M1">>] /\ enable[<<"M1", "M2">>]
          /\ ~run["M1"] /\ ~run["M2"]

----------------------------------------------------------------------------
(* Nonexclusive methods                                                    *)

\* The methods both transactions use.
SharedMethods(t, u) == MethodsUsedBy(t) \cap MethodsUsedBy(u)

\* Some declared relation joins t or a method of t with u or a method of u.
Related(t, u) ==
    \E r \in relations :
        LET Et == {t} \cup MethodsUsedBy(t)
            Eu == {u} \cup MethodsUsedBy(u)
        IN  \/ r.start \in Et /\ r.end \in Eu
            \/ r.start \in Eu /\ r.end \in Et

\* Two transactions whose only shared methods are nonexclusive, no relation
\* declared between them or their methods.
SharingNonexclusive(t, u) ==
    /\ t # u
    /\ SharedMethods(t, u) # {}
    /\ SharedMethods(t, u) \subseteq nonexclusive
    /\ ~Related(t, u)

\* C20 as the claim states it: both are granted whenever both request and are
\* runnable, and the shared method runs.
C20_AsStated ==
    pc = "cycle" =>
        \A t, u \in Scheduled :
            SharingNonexclusive(t, u) =>
                /\ u \notin cgr[t]
                /\ cc_scheduler = "eager" /\ CanRun(t) /\ CanRun(u) =>
                      /\ grant[t] /\ grant[u]
                      /\ \A m \in SharedMethods(t, u) :
                            run[m] /\ Method_call(t, m) = Method_call(u, m)

(* C20: two transactions whose only shared methods are nonexclusive, with  *)
(* no relation declared between them or their methods, have no conflict    *)
(* edge; under the eager scheduler both are granted in a cycle where both  *)
(* request and are runnable and no transaction conflicting with either is  *)
(* granted; when both are granted the shared method has one run signal,    *)
(* asserted when the call of one of them is enabled, and both callers get  *)
(* the same data_out.                                                      *)
C20_NonexclusiveShared ==
    pc = "cycle" =>
        \A t, u \in Scheduled :
            SharingNonexclusive(t, u) =>
                /\ u \notin cgr[t]
                /\ ( /\ cc_scheduler = "eager" /\ CanRun(t) /\ CanRun(u)
                     /\ ~\E w \in cgr[t] \cup cgr[u] : grant[w] )
                   => grant[t] /\ grant[u]
                /\ grant[t] /\ grant[u] =>
                      \A m \in SharedMethods(t, u) :
                          /\ EnabledChain(t, m) \/ EnabledChain(u, m) => run[m]
                          /\ Method_call(t, m) = Method_call(u, m)

\* Both callers of the nonexclusive M1 are granted in one cycle by the eager
\* scheduler, and M1 runs.
C20_Witness ==
    /\ pc = "cycle"
    /\ cc_scheduler = "eager"
    /\ \E t, u \in Scheduled :
          /\ SharingNonexclusive(t, u)
          /\ "M1" \in SharedMethods(t, u)
          /\ grant[t] /\ grant[u]
          /\ EnabledChain(t, "M1") /\ EnabledChain(u, "M1")
          /\ run["M1"]

----------------------------------------------------------------------------
(* ExceptionInformationRegister: the combiner of the report method         *)
(* (coreblocks/priv/traps/exception.py)                                    *)

\* gen_params.rob_entries_bits: the width of a rob_id.
RobEntriesBits == 2
\* At most this many callers of the nonexclusive report method.
MaxCallers == 2

RECURSIVE Pow2(_)
Pow2(n) == IF n = 0 THEN 1 ELSE 2 * Pow2(n - 1)

\* Bit i of the unsigned value v.
Bit(v, i) == (v \div Pow2(i)) % 2

\* The value a Signal of the given width keeps of an integer.
Truncate(v, width) == v % Pow2(width)

\* The cause, pc and mtval an instruction reports (two instructions differing
\* in every field).
Payloads == {[cause |-> 2, pc |-> 4, mtval |-> 1], [cause |-> 3, pc |-> 8, mtval |-> 2]}

\* layouts.report: the argument of report.
ReportArgs ==
    {[rob_id |-> r, cause |-> p.cause, pc |-> p.pc, mtval |-> p.mtval] :
        r \in 0 .. Pow2(RobEntriesBits) - 1, p \in Payloads}

\* The reset value of a Signal.like(args[0]).
ZeroArg == [rob_id |-> 0, cause |-> 0, pc |-> 0, mtval |-> 0]

RECURSIVE min_value_from(_, _, _)
\* min_value, bits i down to 0: a result bit is 1 when every value has it; a
\* value with the bit set while another has it clear becomes -1.
min_value_from(values, i, width) ==
    IF i < 0 THEN 0
    ELSE LET res == \A k \in DOMAIN values : Bit(values[k], i) = 1
             new_values == [k \in DOMAIN values |->
                               IF Bit(values[k], i) = 1 /\ ~res
                               THEN Truncate(-1, width) ELSE values[k]]
         IN  (IF res THEN Pow2(i) ELSE 0) + min_value_from(new_values, i - 1, width)

min_value(values, width) == min_value_from(values, width - 1, width)

\* Mutant: the position of a caller is computed whether it is valid or not.
rob_position_IgnoresValid(arg, valid, start) == Truncate(arg.rob_id - start, RobEntriesBits)

\* rob_position = Signal(rob_entries_bits, init=-1); with m.If(valid): eq(arg.rob_id - rob_start_idx)
rob_position(arg, valid, start) ==
    IF valid THEN Truncate(arg.rob_id - start, RobEntriesBits)
    ELSE Truncate(-1, RobEntriesBits)

\* is_min = Cat(valid & (min_rob_position == rob_position) ...), as the set of
\* the indices whose bit is 1.
is_min(as, valids, start) ==
    LET rob_positions == [k \in DOMAIN as |-> rob_position(as[k], valids[k], start)]
        min_rob_position == min_value(rob_positions, RobEntriesBits)
    IN  {k \in DOMAIN as : valids[k] /\ min_rob_position = rob_positions[k]}

\* The indices OneHotSwitchDynamic may take for the test bits: one of the set
\* bits (none when no bit is set).
OneHotSwitchDynamic(test) == test

\* The values min_combiner can return: args[i] for a taken index i, the reset
\* value of ret when none is taken.
min_combiner(as, valids, start) ==
    LET taken == OneHotSwitchDynamic(is_min(as, valids, start))
    IN  IF taken = {} THEN {ZeroArg} ELSE {as[i] : i \in taken}

\* One cycle in which report has its callers: their arguments, their enables
\* and the start index of the ROB are inputs.
InitCombiner ==
    /\ NoDesign
    /\ \E n \in 1 .. MaxCallers :
          /\ args \in [1 .. n -> ReportArgs]
          /\ valid_bits \in [1 .. n -> BOOLEAN]
    /\ rob_start_idx \in 0 .. Pow2(RobEntriesBits) - 1
    /\ ret = <<>>
    /\ NoEIR /\ NoFRAT
    /\ NoFreeRF
    /\ NoMerger
    /\ NoRF
    /\ NoRRAT
    /\ NoFifoRS
    /\ NoMinValue

\* The combiner settles.
Combine ==
    /\ ret = <<>> /\ args # <<>>
    /\ ret' \in min_combiner(args, valid_bits, rob_start_idx)
    /\ UNCHANGED <<not_combiner_vars, args, valid_bits>>

NextCombiner == Combine

SpecCombiner == InitCombiner /\ [][NextCombiner]_vars

\* The callers of report whose call is enabled.
EnabledCallers == {k \in DOMAIN args : valid_bits[k]}

\* The key of a caller: the distance of its rob_id from the start of the ROB,
\* modulo the size of the ROB.
RobDistance(k) == (args[k].rob_id - rob_start_idx) % Pow2(RobEntriesBits)

----------------------------------------------------------------------------
(* The round-robin scheduler                                               *)

\* The transactions of component i granted in the current cycle.
GrantedIn(i) == {t \in Range(ccs[i]) : grant[t]}

(* C22: under the round-robin scheduler at most one transaction of each    *)
(* connected component is granted in a cycle, also when several requesting *)
(* runnable transactions of the component do not conflict with each other. *)
C22_RoundRobinOnePerComponent ==
    (pc = "cycle" /\ cc_scheduler = "roundrobin") =>
        \A i \in DOMAIN ccs : Cardinality(GrantedIn(i)) <= 1

\* Two transactions of one component without a conflict edge between them
\* both request and are runnable; one is granted, the other is not.
C22_Witness ==
    /\ pc = "cycle" /\ cc_scheduler = "roundrobin"
    /\ \E i \in DOMAIN ccs : \E t, u \in Range(ccs[i]) :
          /\ t # u /\ u \notin cgr[t]
          /\ CanRun(t) /\ CanRun(u)
          /\ grant[t] /\ ~grant[u]

(* C23: the round-robin scheduler is fair: once the design is built, a     *)
(* transaction that requests and is runnable in every cycle from some      *)
(* point on is granted again and again, whatever the other transactions of *)
(* its component request.                                                  *)
C23_RoundRobinFair ==
    \A t \in Range(Three) :
        (<>(pc = "elaborated") /\ <>[](pc = "cycle" => CanRun(t)))
            => []<>(pc = "cycle" /\ grant[t])

\* A transaction requests and is runnable but has to wait: another
\* transaction of its component is granted in this cycle.
C23_Witness ==
    /\ pc = "cycle" /\ cc_scheduler = "roundrobin"
    /\ \E i \in DOMAIN ccs : \E t, u \in Range(ccs[i]) :
          /\ t # u
          /\ method_uses[t] = {"M1"} /\ method_uses[u] = {"M1"}
          /\ CanRun(t) /\ ~grant[t] /\ grant[u]

----------------------------------------------------------------------------
(* Transactions without conflicts                                          *)

(* C24: under either scheduler a transaction that has no conflict edge to  *)
(* any other transaction is granted in every cycle in which it requests    *)
(* and all the methods it uses are ready.                                  *)
C24_UnconflictedGranted ==
    pc = "cycle" =>
        \A t \in Scheduled : (cgr[t] = {} /\ CanRun(t)) => grant[t]

----------------------------------------------------------------------------
(* What a cycle depends on                                                 *)

\* The values the registers of the schedulers can hold.
RegisterValues ==
    {regs \in [DOMAIN ccs -> 1..Len(transactions)] : \A i \in DOMAIN ccs : regs[i] <= Len(ccs[i])}

\* The state between two cycles is the state elaborate() left.
NothingCarried ==
    /\ grant_reg = [i \in DOMAIN ccs |-> 1]
    /\ request = <<>> /\ ready = <<>> /\ enable = <<>> /\ grant = <<>> /\ run = <<>>

(* C25: under the eager scheduler the grant and run signals of a cycle are *)
(* a function of the request, ready and enable inputs of that cycle and of *)
(* the graphs of the build: whatever the registers hold the same grants    *)
(* and runs come out, and the state between two cycles carries nothing of  *)
(* the cycles before.                                                      *)
C25_EagerStateless ==
    cc_scheduler = "eager" =>
        /\ pc = "elaborated" => NothingCarried
        /\ pc = "cycle" =>
              \A regs \in RegisterValues :
                  LET g == Schedulers(cc_scheduler, ccs, regs, porder,
                                      methods_by_transaction, cgr, request, ready)
                  IN  /\ \A t \in Scheduled : grant[t] = g[t]
                      /\ \A m \in MapMethods(methods_by_transaction) :
                            run[m] = MethodRun(method_uses, methods_by_transaction, g, enable, m)

\* A cycle of the eager scheduler in which a requesting, runnable transaction
\* is not granted, in a component of two or more transactions.
C25_Witness ==
    /\ pc = "cycle" /\ cc_scheduler = "eager"
    /\ Cardinality(RegisterValues) > 1
    /\ \E t \in Scheduled : CanRun(t) /\ ~grant[t]

\* The methods the transactions of component i use.
ComponentMethods(i) == UNION {methods_by_transaction[t] : t \in Range(ccs[i])}

\* The inputs of a cycle that agree with the current ones on component i.
SameInputsFor(i) ==
    {in \in [request : [DOMAIN request -> BOOLEAN], ready : [DOMAIN ready -> BOOLEAN]] :
        /\ \A t \in Range(ccs[i]) : in.request[t] = request[t]
        /\ \A m \in ComponentMethods(i) : in.ready[m] = ready[m]}

----------------------------------------------------------------------------
(* Declared conflicts                                                      *)

\* Element e executes in the current cycle: a transaction is granted, a
\* method runs.
Executes(e) ==
    IF e \in DOMAIN grant THEN grant[e]
    ELSE IF e \in DOMAIN run THEN run[e]
    ELSE FALSE

(* C27: if X.add_conflict(Y) is declared, X and Y transactions or methods, *)
(* no cycle has both executing (granted for a transaction, run for a       *)
(* method), whatever uses them, a single transaction calling both          *)
(* included.                                                               *)
C27_DeclaredConflictExcludes ==
    pc = "cycle" =>
        \A r \in relations : r.conflict => ~(Executes(r.start) /\ Executes(r.end))

----------------------------------------------------------------------------
(* The docstring of schedule_before                                        *)

(* C28: as the docstring of schedule_before states, x.schedule_before(y)   *)
(* records that y is scheduled before x: when the build succeeds every     *)
(* transaction that is or uses y precedes, in the global order, every      *)
(* transaction that is or uses x.                                          *)
C28_DocstringDirection ==
    pc \in {"elaborated", "cycle"} =>
        \A r \in ScheduleBefore :
            \A x \in TransactionsOf(r.start) : \A y \in TransactionsOf(r.end) :
                porder[y] < porder[x]

----------------------------------------------------------------------------
(* ExceptionInformationRegister: report, get and clear                     *)

\* (a - b).as_unsigned(): the difference of two rob_ids, one bit wider than
\* they are, read as an unsigned number.
as_unsigned(difference) == Truncate(difference, RobEntriesBits + 1)

\* Mutant: the two differences are compared as signed numbers.
should_write_Signed(reg, rob_id, start) ==
    IF reg.valid /\ reg.rob_id = rob_id THEN FALSE
    ELSE IF reg.valid THEN rob_id - start < reg.rob_id - start
    ELSE TRUE

\* should_write of the report method
should_write(reg, rob_id, start) ==
    IF reg.valid /\ reg.rob_id = rob_id THEN FALSE
    ELSE IF reg.valid THEN as_unsigned(rob_id - start) < as_unsigned(reg.rob_id - start)
    ELSE TRUE

\* The registers after the sync statements of report.
report(reg, arg, start) ==
    IF should_write(reg, arg.rob_id, start)
    THEN [valid |-> TRUE, rob_id |-> arg.rob_id, cause |-> arg.cause,
          pc |-> arg.pc, mtval |-> arg.mtval]
    ELSE [reg EXCEPT !.valid = TRUE]

\* The registers after the sync statement of clear.
clear(reg) == [reg EXCEPT !.valid = FALSE]

\* What get returns.
get == eir

\* The distance of a rob_id from the start of the ROB, modulo the ROB size.
Distance(rob_id, start) == (rob_id - start) % Pow2(RobEntriesBits)

\* No report since the last clear.
NoReports == [any |-> FALSE, several |-> FALSE, stable |-> TRUE, start |-> 0, earliest |-> ZeroArg]

\* The history after one more report: the start index at the first report,
\* whether every report saw that start index, and the report of minimum
\* distance, the first one of those of equal distance.
Track(h, arg, start) ==
    IF ~h.any
    THEN [any |-> TRUE, several |-> FALSE, stable |-> TRUE, start |-> start, earliest |-> arg]
    ELSE [any |-> TRUE, several |-> TRUE,
          stable |-> h.stable /\ start = h.start,
          start |-> h.start,
          earliest |-> IF Distance(arg.rob_id, h.start) < Distance(h.earliest.rob_id, h.start)
                       THEN arg ELSE h.earliest]

\* The register after reset, any start index of the ROB.
InitEIR ==
    /\ NoDesign /\ NoCombiner /\ NoFRAT
    /\ rob_start_idx \in 0 .. Pow2(RobEntriesBits) - 1
    /\ eir = [valid |-> FALSE, rob_id |-> 0, cause |-> 0, pc |-> 0, mtval |-> 0]
    /\ reported = NoReports
    /\ NoFreeRF
    /\ NoMerger
    /\ NoRF
    /\ NoRRAT
    /\ NoFifoRS
    /\ NoMinValue

\* A cycle in which report runs and clear does not.
Report ==
    /\ eir # <<>>
    /\ \E arg \in ReportArgs :
          /\ eir' = report(eir, arg, rob_start_idx)
          /\ reported' = Track(reported, arg, rob_start_idx)
    /\ UNCHANGED <<not_eir_vars, rob_start_idx>>

\* A cycle in which clear runs and report does not.
Clear ==
    /\ eir # <<>>
    /\ eir' = clear(eir)
    /\ reported' = NoReports
    /\ UNCHANGED <<not_eir_vars, rob_start_idx>>

\* A cycle in which both run: the assignment to valid of clear, the later
\* one, wins.
ReportAndClear ==
    /\ eir # <<>>
    /\ \E arg \in ReportArgs : eir' = clear(report(eir, arg, rob_start_idx))
    /\ reported' = NoReports
    /\ UNCHANGED <<not_eir_vars, rob_start_idx>>

\* The ROB retires or flushes: rob_get_indices returns another start.
RobAdvance ==
    /\ eir # <<>>
    /\ rob_start_idx' \in (0 .. Pow2(RobEntriesBits) - 1) \ {rob_start_idx}
    /\ UNCHANGED <<not_eir_vars, eir_vars>>

NextEIR == Report \/ Clear \/ ReportAndClear \/ RobAdvance

SpecEIR == InitEIR /\ [][NextEIR]_vars

\* The report the register holds.
Stored == [rob_id |-> eir.rob_id, cause |-> eir.cause, pc |-> eir.pc, mtval |-> eir.mtval]

(* C29: between two clears and with the ROB start index unchanged, after   *)
(* any sequence of report calls valid is 1 and the stored rob_id, cause,   *)
(* pc and mtval are those of the report with the minimum                   *)
(* (rob_id - rob_start_idx) modulo the ROB size, the first one of them: a  *)
(* later report with the rob_id of the stored one does not overwrite it.   *)
C29_EarliestException ==
    (reported # <<>> /\ reported.any /\ reported.stable) =>
        /\ eir.valid
        /\ get.valid
        /\ Stored = reported.earliest

\* Two or more reports since the last clear, the start index unchanged; the
\* stored rob_id lies behind the wrap of the ROB index.
C29_Witness ==
    /\ reported # <<>> /\ reported.several /\ reported.stable
    /\ eir.valid
    /\ eir.rob_id < reported.start
    /\ Distance(eir.rob_id, reported.start) > 0

----------------------------------------------------------------------------
(* FRAT (coreblocks/core_structs/rat.py)                                   *)

\* gen_params.isa.reg_cnt: the number of logical registers.
RegCnt == 2
\* gen_params.phys_regs_bits: the width of a physical register number.
PhysRegsBits == 1
\* At most this many calls of rename.
MaxRenames == 3

LogicalRegs == 0 .. RegCnt - 1
PhysRegs == 0 .. Pow2(PhysRegsBits) - 1

\* Mutant: the sources are looked up after the write of rl_dst.
rename_WriteFirst(ents, rp_dst, rl_dst, rl_s1, rl_s2) ==
    LET written == [ents EXCEPT ![rl_dst] = rp_dst]
    IN  [entries |-> written, rp_s1 |-> written[rl_s1], rp_s2 |-> written[rl_s2]]

\* rename: the entries after the clock edge and the returned rp_s1, rp_s2, read
\* from the entries of the current cycle.
rename(ents, rp_dst, rl_dst, rl_s1, rl_s2) ==
    [entries |-> [ents EXCEPT ![rl_dst] = rp_dst],
     rp_s1 |-> ents[rl_s1], rp_s2 |-> ents[rl_s2]]

\* After reset every entry is 0; rename was not called.
InitFRAT ==
    /\ NoDesign /\ NoCombiner /\ NoEIR
    /\ rob_start_idx = 0
    /\ entries = [rl \in LogicalRegs |-> 0]
    /\ rename_out = <<>>
    /\ renames = <<>>
    /\ NoFreeRF
    /\ NoMerger
    /\ NoRF
    /\ NoRRAT
    /\ NoFifoRS
    /\ NoMinValue

\* A cycle in which rename runs.
Rename ==
    /\ entries # <<>>
    /\ Len(renames) < MaxRenames
    /\ \E rp_dst \in PhysRegs : \E rl_dst, rl_s1, rl_s2 \in LogicalRegs :
          LET r == rename(entries, rp_dst, rl_dst, rl_s1, rl_s2)
          IN  /\ entries' = r.entries
              /\ rename_out' = [rl_s1 |-> rl_s1, rl_s2 |-> rl_s2,
                                rp_s1 |-> r.rp_s1, rp_s2 |-> r.rp_s2]
              /\ renames' = Append(renames, [rl_dst |-> rl_dst, rp_dst |-> rp_dst])
    /\ UNCHANGED not_frat_vars

NextFRAT == Rename

SpecFRAT == InitFRAT /\ [][NextFRAT]_vars

\* The calls before the last one.
EarlierRenames == SubSeq(renames, 1, Len(renames) - 1)

\* The rp_dst of the most recent call among calls that renamed rl; 0 if none.
MostRecent(calls, rl) ==
    LET hits == {k \in DOMAIN calls : calls[k].rl_dst = rl}
    IN  IF hits = {} THEN 0
        ELSE calls[CHOOSE k \in hits : \A h \in hits : h <= k].rp_dst

(* C30: FRAT.rename refines a map from logical to physical registers that  *)
(* starts all zero: the rp_s1 and rp_s2 a call returns are the rp_dst of   *)
(* the most recent earlier call whose rl_dst is rl_s1 (rl_s2), 0 if there  *)
(* is none; the call's own write of rl_dst is not seen by its own lookup.  *)
C30_RenameRefinesMap ==
    rename_out # <<>> =>
        /\ rename_out.rp_s1 = MostRecent(EarlierRenames, rename_out.rl_s1)
        /\ rename_out.rp_s2 = MostRecent(EarlierRenames, rename_out.rl_s2)
        /\ \A rl \in LogicalRegs : entries[rl] = MostRecent(renames, rl)

\* A call reads the register it renames: it gets the rp_dst of an earlier
\* call, not its own.
C30_Witness ==
    /\ rename_out # <<>>
    /\ Len(renames) >= 2
    /\ renames[Len(renames)].rl_dst = rename_out.rl_s1
    /\ renames[Len(renames)].rp_dst # rename_out.rp_s1
    /\ rename_out.rp_s1 # 0

(***************************************************************************)
(* Core: the InitFreeRFFifo transaction (core.py 187-191) and the          *)
(* free-register FIFO free_rf_fifo (core.py 68-70).  The FIFO is a         *)
(* BasicFifo of depth 2^phys_regs_bits; only its level is kept.  Its write *)
(* method is also called by the retirement (free_rf_put, core.py 173) and  *)
(* its read method by the scheduler (get_free_reg, core.py 150).           *)
(***************************************************************************)
CorePhysRegsBits == 4

free_rf_reg_reset == 1

FreeRFDepth == Pow2(CorePhysRegsBits)

\* BasicFifo: write is ready while the FIFO is not full, read while it is
\* not empty
free_rf_fifo_write_ready(level) == level < FreeRFDepth

free_rf_fifo_read_ready(level) == level > 0

InitFreeRFFifo_request_Always(reg) == TRUE

\* request=(free_rf_reg.bool())
InitFreeRFFifo_request(reg) == reg # 0

\* free_rf_reg + 1 assigned to a signal of phys_regs_bits bits
free_rf_reg_next(reg) == Truncate(reg + 1, CorePhysRegsBits)

InitFreeRF ==
    /\ NoDesign /\ NoCombiner /\ NoEIR /\ NoFRAT
    /\ rob_start_idx = 0
    /\ free_rf_reg = free_rf_reg_reset
    /\ free_rf_level = 0
    /\ free_rf_written = <<>>
    /\ NoMerger
    /\ NoRF
    /\ NoRRAT
    /\ NoFifoRS
    /\ NoMinValue

\* What the level becomes in a cycle with the given number of writes, in
\* which the scheduler may also read
FreeRFLevel(level, writes, reads) ==
    /\ reads => free_rf_fifo_read_ready(free_rf_level)
    /\ level = free_rf_level + writes - (IF reads THEN 1 ELSE 0)

\* A cycle in which the InitFreeRFFifo transaction is granted
InitFreeRFFifo ==
    /\ InitFreeRFFifo_request(free_rf_reg)
    /\ free_rf_fifo_write_ready(free_rf_level)
    /\ \E reads \in BOOLEAN :
           \E level \in 0..FreeRFDepth :
               /\ FreeRFLevel(level, 1, reads)
               /\ free_rf_level' = level
    /\ free_rf_written' = Append(free_rf_written, free_rf_reg)
    /\ free_rf_reg' = free_rf_reg_next(free_rf_reg)
    /\ UNCHANGED not_freerf_vars

\* A cycle in which the retirement writes to the FIFO: the write method is
\* exclusive, so InitFreeRFFifo is not granted
FreeRFPut ==
    /\ free_rf_fifo_write_ready(free_rf_level)
    /\ \E reads \in BOOLEAN :
           \E level \in 0..FreeRFDepth :
               /\ FreeRFLevel(level, 1, reads)
               /\ free_rf_level' = level
    /\ UNCHANGED <<free_rf_reg, free_rf_written, not_freerf_vars>>

\* A cycle in which only the scheduler reads
GetFreeReg ==
    /\ free_rf_fifo_read_ready(free_rf_level)
    /\ free_rf_level' = free_rf_level - 1
    /\ UNCHANGED <<free_rf_reg, free_rf_written, not_freerf_vars>>

NextFreeRF == InitFreeRFFifo \/ FreeRFPut \/ GetFreeReg

\* The transaction is granted again and again as long as the write keeps
\* becoming available to it
SpecFreeRF == InitFreeRF /\ [][NextFreeRF]_vars /\ SF_vars(InitFreeRFFifo)

InitWrittenInOrder ==
    /\ Len(free_rf_written) <= Pow2(CorePhysRegsBits) - 1
    /\ \A i \in DOMAIN free_rf_written : free_rf_written[i] = i
    /\ free_rf_reg = Truncate(Len(free_rf_written) + 1, CorePhysRegsBits)

InitDone ==
    /\ free_rf_reg = 0
    /\ free_rf_written = [i \in 1..(Pow2(CorePhysRegsBits) - 1) |-> i]

\* C31: InitFreeRFFifo writes 1, 2, ..., 2^phys_regs_bits - 1 to the
\* free-register FIFO, each once and in increasing order, and never 0; once
\* its counter has wrapped to 0 it does not request and writes nothing more;
\* and when the write of the FIFO is ready again and again the counter
\* reaches 0.
C31_InitFreeRFFifo ==
    /\ [](InitWrittenInOrder)
    /\ [](free_rf_reg = 0 => InitDone /\ ~InitFreeRFFifo_request(free_rf_reg))
    /\ [][free_rf_reg = 0 =>
              free_rf_reg' = 0 /\ free_rf_written' = free_rf_written]_vars
    /\ ([]<>free_rf_fifo_write_ready(free_rf_level)) => <>(free_rf_reg = 0)

C31_Witness ==
    /\ InitDone
    /\ free_rf_level = FreeRFDepth

----------------------------------------------------------------------------
(* The shape of the conflict graph and of the relation graph               *)

Symmetric(graph) ==
    \A t \in DOMAIN graph : \A u \in graph[t] : u \in DOMAIN graph /\ t \in graph[u]

NoSelfLoops(graph) == \A t \in DOMAIN graph : t \notin graph[t]

\* C32: after a successful build the conflict graph and the relation graph
\* are symmetric and no transaction is its own neighbour in either of them.
C32_GraphsSymmetricNoSelfLoops ==
    pc \in {"elaborated", "cycle"} =>
        /\ Symmetric(cgr) /\ Symmetric(rgr)
        /\ NoSelfLoops(cgr) /\ NoSelfLoops(rgr)

----------------------------------------------------------------------------
(* Running methods                                                         *)

\* The methods the manager drives: those of the method map.
DrivenMethods == MapMethods(methods_by_transaction)

\* C33: in every cycle, with either scheduler, a method that runs is ready,
\* whether a transaction calls it or another method does.
C33_RunImpliesReady ==
    pc = "cycle" => \A m \in DrivenMethods : run[m] => ready[m]

\* A method no transaction calls itself, called by another method, runs and is
\* ready.
C33_Witness ==
    /\ pc = "cycle"
    /\ \E m \in DrivenMethods :
          /\ \A t \in Scheduled : m \notin method_uses[t]
          /\ run[m] /\ ready[m]

\* The callers of method m: the transactions and methods whose body calls it.
CallersOf(m) == {e \in DOMAIN method_uses : m \in method_uses[e]}

\* C34: a method called only from the body of one other method runs in a
\* cycle only if that method runs in the cycle, whatever the enable of the
\* calls.
C34_NestedRunsWithCaller ==
    pc = "cycle" =>
        \A M1, M2 \in DrivenMethods :
            CallersOf(M2) = {M1} => (run[M2] => run[M1])

\* A granted transaction calls M1 with enable=0, M1 calls M2 with enable=1 and
\* nothing else calls M2: both are ready and neither runs.
C34_Witness ==
    /\ pc = "cycle"
    /\ \E M1, M2 \in DrivenMethods : \E t \in Scheduled :
          /\ CallersOf(M2) = {M1} /\ M1 \in method_uses[t]
          /\ grant[t] /\ ready[M1] /\ ready[M2]
          /\ ~enable[<<t, M1>>] /\ enable[<<M1, M2>>]
          /\ ~run[M1] /\ ~run[M2]

(***************************************************************************)
(* TransactionManager._simultaneous, step 2, iteration by iteration        *)
(* (core.py 310-338): the work queue q, the set `simultaneous` and the     *)
(* list `conflicts` are the state, one action is one pass of `while q`.    *)
(***************************************************************************)
\* At most this many simultaneous_with declarations in a design whose merge
\* is followed step by step.
MaxMergeDecl == 3

already_merged_Never(new_group, sim) == FALSE

\* if new_group in simultaneous: continue
already_merged(new_group, sim) == new_group \in sim

\* A set of groups as a list, in an order that depends on the groups only
\* (the order in which a Python set is iterated is not specified).
GroupCode(group) ==
    LET bit(t, w) == IF t \in group THEN w ELSE 0
    IN  bit("T1", 1) + bit("T2", 2) + bit("T3", 4) + bit("T4", 8)

GroupSeq(S) ==
    [i \in 1..Cardinality(S) |->
        CHOOSE g \in S : Cardinality({h \in S : GroupCode(h) < GroupCode(g)}) = i - 1]

\* q.extend(mergable_pairs(new_group)): the pairs queued for a new group
queued_pairs(sim, conflicts, group1) ==
    LET cand == GroupSeq({group2 \in sim : group1 \cap group2 # {}
                                           /\ ~conflicting(conflicts, group1, group2)})
    IN  [i \in 1..Len(cand) |-> <<group1, cand[i]>>]

\* The state at `while q` for a design: four transactions, calls of M1 and
\* simultaneous_with declarations.
InitMerger ==
    /\ NoDesign /\ NoCombiner /\ NoEIR /\ NoFRAT /\ NoFreeRF
    /\ rob_start_idx = 0
    /\ \E S \in Bounded(SimChoices(AllTransactions, {"M1"}), MaxMergeDecl) \ {{}} :
       \E U \in SUBSET UseEdges(AllTransactions, {"M1"}) :
          LET mbt == MethodMap(AllTransactions, UsesOf(AllTransactions, U)).methods_by_transaction
              conflicts == ConflictSets(mbt, S)
              sim0 == UNION {conflicts[i] : i \in 1..Len(conflicts)}
          IN  /\ sim_conflicts = conflicts
              /\ sim_groups = sim0
              /\ sim_q = InitialQueue(SetToSeq(sim0), sim0, conflicts)
              /\ sim_added = <<>>
    /\ NoRF
    /\ NoRRAT
    /\ NoFifoRS
    /\ NoMinValue

\* (group1, group2) = q.popleft(); new_group is already there: continue
MergeSkip ==
    /\ sim_q # <<>>
    /\ already_merged(Head(sim_q)[1] \cup Head(sim_q)[2], sim_groups)
    /\ sim_q' = Tail(sim_q)
    /\ UNCHANGED <<sim_groups, sim_conflicts, sim_added, not_merger_vars>>

\* (group1, group2) = q.popleft(); new_group is new: its mergable pairs are
\* queued, it is added to the set and to the conflicts of group1 and group2
MergeAdd ==
    /\ sim_q # <<>>
    /\ LET group1 == Head(sim_q)[1]
           group2 == Head(sim_q)[2]
           new_group == group1 \cup group2
       IN  /\ ~already_merged(new_group, sim_groups)
           /\ sim_q' = Tail(sim_q) \o queued_pairs(sim_groups, sim_conflicts, new_group)
           /\ sim_groups' = sim_groups \cup {new_group}
           /\ sim_conflicts' = AddToConflicts(sim_conflicts, group1, group2, new_group)
           /\ sim_added' = Append(sim_added, new_group)
    /\ UNCHANGED not_merger_vars

NextMerger == MergeSkip \/ MergeAdd

\* The loop runs on: a pass that can be made is made.
SpecMerger == InitMerger /\ [][NextMerger]_vars /\ WF_vars(NextMerger)

\* The groups the loop added are pairwise different, and none of them was
\* in the set before the loop.
AddedOnce ==
    /\ \A i, j \in DOMAIN sim_added : i # j => sim_added[i] # sim_added[j]
    /\ \A i \in DOMAIN sim_added : sim_added[i] \in sim_groups
    /\ Cardinality(sim_groups) >= Len(sim_added)

\* C35: the loop of step 2 adds every group at most once (a group it adds
\* was not in the set, and no group leaves the set), and its queue becomes
\* empty: it terminates.
C35_MergerTerminates ==
    /\ [](AddedOnce)
    /\ [][/\ sim_groups \subseteq sim_groups'
          /\ Len(sim_added') > Len(sim_added) =>
                 sim_added'[Len(sim_added')] \notin sim_groups]_vars
    /\ <>(sim_q = <<>>)

\* The loop has ended after it added two groups or more and skipped a pair.
C35_Witness ==
    /\ sim_q = <<>>
    /\ Len(sim_added) >= 2
    /\ Cardinality(sim_groups) > Len(sim_added) + 1

(***************************************************************************)
(* RegisterFile (rf.py): valids, the data of the registers, and the bypass *)
(* signals of a cycle.  One action is one cycle in which the methods named *)
(* are called.  MemoryBank keeps, for every address, the data last written.*)
(***************************************************************************)
\* The number of bypass methods.
NumBypass == 1

RfRegs == 0..(Pow2(PhysRegsBits) - 1)
\* The values written to the registers, and what the memory holds at first.
RfValues == {"v1", "v2", "v3"}
RfInitial == "v0"
\* The ports of bypass_valids: the bypass methods, then write.
BypassPorts == 1..(NumBypass + 1)
WritePort == NumBypass + 1

RfCall(method, reg_id) == [method |-> method, reg_id |-> reg_id]

\* with m.If(reg_id != 0)
writes(reg_id) == reg_id # 0

\* m.d.sync += self.valids[reg_id].eq(1) of write, then, later in the module,
\* m.d.sync += self.valids[reg_id].eq(0) of free: the later assignment wins.
next_valids(valids, write_called, write_id, free_called, free_id) ==
    LET written == IF write_called /\ writes(write_id)
                   THEN [valids EXCEPT ![write_id] = TRUE] ELSE valids
    IN  IF free_called /\ writes(free_id)
        THEN [written EXCEPT ![free_id] = FALSE] ELSE written

\* self.entries.write(m, addr=reg_id, data=reg_val)
next_entries(data, write_called, write_id, reg_val) ==
    IF write_called /\ writes(write_id)
    THEN [data EXCEPT ![write_id] = reg_val] ELSE data

\* bypass_valids and bypass_data when the method of port p is called: the
\* reg_id and reg_val of the call, under m.If(reg_id != 0)
port_valids(p, reg_id) == [q \in BypassPorts |-> q = p /\ writes(reg_id)]

port_data(p, reg_id, reg_val) ==
    [q \in BypassPorts |->
        IF q = p /\ writes(reg_id) THEN [reg_id |-> reg_id, reg_val |-> reg_val]
        ELSE [reg_id |-> 0, reg_val |-> RfInitial]]

\* No method with a bypass port is called.
no_valids == [q \in BypassPorts |-> FALSE]
no_data == [q \in BypassPorts |-> [reg_id |-> 0, reg_val |-> RfInitial]]

\* bypass_hits of perform_read
bypass_hits(bvalids, bdata, reg_id) ==
    {p \in BypassPorts : bvalids[p] /\ reg_id = bdata[p].reg_id}

\* perform_read: the bypassed data when a port hits, the stored data and the
\* valid bit otherwise
perform_read(bvalids, bdata, valids, reg_id, reg_val) ==
    LET hits == bypass_hits(bvalids, bdata, reg_id)
    IN  IF hits # {}
        THEN [reg_id |-> reg_id, reg_val |-> bdata[CHOOSE p \in hits : TRUE].reg_val,
              valid |-> TRUE, hit |-> TRUE]
        ELSE [reg_id |-> reg_id, reg_val |-> reg_val, valid |-> valids[reg_id], hit |-> FALSE]

\* Signal(init=k == 0) for every k
InitRF ==
    /\ NoDesign /\ NoCombiner /\ NoEIR /\ NoFRAT /\ NoFreeRF /\ NoMerger
    /\ rob_start_idx = 0
    /\ rf_entries = [k \in RfRegs |-> RfInitial]
    /\ rf_valids = [k \in RfRegs |-> k = 0]
    /\ bypass_valids = no_valids
    /\ bypass_data = no_data
    /\ read_ret = perform_read(no_valids, no_data, [k \in RfRegs |-> k = 0], 0, RfInitial)
    /\ rf_calls = {}
    /\ NoRRAT
    /\ NoFifoRS
    /\ NoMinValue

\* read_resp1 called in the cycle whose bypass signals are the primed ones
read_resp1 ==
    \E reg_id \in RfRegs :
        read_ret' = perform_read(bypass_valids', bypass_data', rf_valids, reg_id,
                                 rf_entries[reg_id])

\* A cycle in which write is called
RfWrite ==
    \E reg_id \in RfRegs : \E reg_val \in RfValues :
        /\ rf_valids' = next_valids(rf_valids, TRUE, reg_id, FALSE, 0)
        /\ rf_entries' = next_entries(rf_entries, TRUE, reg_id, reg_val)
        /\ bypass_valids' = port_valids(WritePort, reg_id)
        /\ bypass_data' = port_data(WritePort, reg_id, reg_val)
        /\ read_resp1
        /\ rf_calls' = {RfCall("write", reg_id)}
        /\ UNCHANGED not_rf_vars

\* A cycle in which one of the bypass methods is called
RfBypass ==
    \E k \in 1..NumBypass : \E reg_id \in RfRegs : \E reg_val \in RfValues :
        /\ bypass_valids' = port_valids(k, reg_id)
        /\ bypass_data' = port_data(k, reg_id, reg_val)
        /\ read_resp1
        /\ rf_calls' = {RfCall("bypass", reg_id)}
        /\ UNCHANGED <<rf_valids, rf_entries, not_rf_vars>>

\* A cycle in which free is called
RfFree ==
    \E reg_id \in RfRegs :
        /\ rf_valids' = next_valids(rf_valids, FALSE, 0, TRUE, reg_id)
        /\ bypass_valids' = no_valids
        /\ bypass_data' = no_data
        /\ read_resp1
        /\ rf_calls' = {RfCall("free", reg_id)}
        /\ UNCHANGED <<rf_entries, not_rf_vars>>

\* A cycle in which write and free are both called: the methods do not
\* conflict
RfWriteAndFree ==
    \E write_id, free_id \in RfRegs : \E reg_val \in RfValues :
        /\ rf_valids' = next_valids(rf_valids, TRUE, write_id, TRUE, free_id)
        /\ rf_entries' = next_entries(rf_entries, TRUE, write_id, reg_val)
        /\ bypass_valids' = port_valids(WritePort, write_id)
        /\ bypass_data' = port_data(WritePort, write_id, reg_val)
        /\ read_resp1
        /\ rf_calls' = {RfCall("write", write_id), RfCall("free", free_id)}
        /\ UNCHANGED not_rf_vars

NextRF == RfWrite \/ RfBypass \/ RfFree \/ RfWriteAndFree

SpecRF == InitRF /\ [][NextRF]_vars

\* Register 0 is valid.
ZeroValid == rf_valids[0]

\* What the calls of a cycle did, for calls with reg_id 0 and for the others.
CallsOfCycle ==
    /\ (\A c \in rf_calls' : c.reg_id = 0) =>
           /\ rf_valids' = rf_valids /\ rf_entries' = rf_entries
           /\ \A p \in BypassPorts : ~bypass_valids'[p]
           /\ ~read_ret'.hit
    /\ \A c \in rf_calls' :
           /\ c.method = "write" /\ c.reg_id # 0 => rf_valids'[c.reg_id]
           /\ c.method = "free" /\ c.reg_id # 0 => ~rf_valids'[c.reg_id]

\* C37: valids[0] is 1 in every reachable state; write, bypass and free
\* calls with reg_id 0 change neither valids nor the data, set no bit of
\* bypass_valids and give a read of the cycle no bypass hit; for reg_id != 0, after a cycle in which write is called the
\* valid bit of the register is 1, and after a cycle in which free is called
\* it is 0.
C37_RegisterZeroConstant == [](ZeroValid) /\ [][CallsOfCycle]_vars

(***************************************************************************)
(* RRAT (rat.py 30-74): the initialization transaction, commit and peek.   *)
(* MemoryBank keeps for every address the data last written; the           *)
(* readiness of its write method is an input.                              *)
(***************************************************************************)
\* The number of logical registers of the RRAT.
RratRegCnt == 4

\* The width of rl_idx: Signal(range(reg_cnt))
RlIdxBits ==
    CHOOSE w \in 0..RratRegCnt : Pow2(w) >= RratRegCnt /\ (w = 0 \/ Pow2(w - 1) < RratRegCnt)

RratLogicalRegs == 0..(RratRegCnt - 1)

\* request=~initialized
rrat_init_request(init) == ~init

is_last_First(idx) == idx = 0

\* with m.If(rl_idx == self.gen_params.isa.reg_cnt - 1)
is_last(idx) == idx = RratRegCnt - 1

\* ready=initialized of commit and of peek
commit_ready == initialized
peek_ready == initialized

\* After reset; the memory holds anything.
InitRRAT ==
    /\ NoDesign /\ NoCombiner /\ NoEIR /\ NoFRAT /\ NoFreeRF /\ NoMerger /\ NoRF
    /\ rob_start_idx = 0
    /\ initialized = FALSE
    /\ rl_idx = 0
    /\ rrat_entries \in [RratLogicalRegs -> PhysRegs]
    /\ write_ready \in BOOLEAN
    /\ peeked = <<>>
    /\ rrat_writes = <<>>
    /\ NoFifoRS
    /\ NoMinValue

\* A cycle in which the initialization transaction is granted
RratInitialize ==
    /\ rrat_init_request(initialized)
    /\ write_ready
    /\ rrat_entries' = [rrat_entries EXCEPT ![rl_idx] = 0]
    /\ rrat_writes' = Append(rrat_writes, [addr |-> rl_idx, data |-> 0])
    /\ rl_idx' = Truncate(rl_idx + 1, RlIdxBits)
    /\ initialized' = (initialized \/ is_last(rl_idx))
    /\ write_ready' \in BOOLEAN
    /\ UNCHANGED <<peeked, not_rrat_vars>>

\* A cycle in which commit is called
RratCommit ==
    /\ commit_ready
    /\ write_ready
    /\ \E rl_dst \in RratLogicalRegs : \E rp_dst \in PhysRegs :
           rrat_entries' = [rrat_entries EXCEPT ![rl_dst] = rp_dst]
    /\ write_ready' \in BOOLEAN
    /\ UNCHANGED <<initialized, rl_idx, peeked, rrat_writes, not_rrat_vars>>

\* A cycle in which peek is called
RratPeek ==
    /\ peek_ready
    /\ \E rl_dst \in RratLogicalRegs : peeked' = <<rl_dst>>
    /\ write_ready' \in BOOLEAN
    /\ UNCHANGED <<initialized, rl_idx, rrat_entries, rrat_writes, not_rrat_vars>>

\* A cycle in which no method of the RRAT runs and its transaction is not
\* granted
RratIdle ==
    /\ write_ready' = ~write_ready
    /\ UNCHANGED <<initialized, rl_idx, rrat_entries, peeked, rrat_writes, not_rrat_vars>>

NextRRAT == RratInitialize \/ RratCommit \/ RratPeek \/ RratIdle

\* The initialization transaction is granted again and again as long as the
\* write keeps becoming ready.
SpecRRAT == InitRRAT /\ [][NextRRAT]_vars /\ SF_vars(RratInitialize)

\* The initialization wrote 0 to the addresses 0, 1, ... in this order.
InitializedInOrder ==
    /\ Len(rrat_writes) <= RratRegCnt
    /\ \A i \in DOMAIN rrat_writes : rrat_writes[i] = [addr |-> i - 1, data |-> 0]

\* C38: commit and peek are not ready before the initialization transaction
\* was granted reg_cnt times, and it wrote 0 to every address 0..reg_cnt-1
\* once; initialized stays 1, and when it is 1 the transaction does not
\* request and writes nothing more; when the write of the memory is ready
\* again and again, initialized becomes 1.
C38_RratInitialization ==
    /\ [](InitializedInOrder)
    /\ [](commit_ready \/ peek_ready => Len(rrat_writes) = RratRegCnt)
    /\ [](initialized <=> ~rrat_init_request(initialized))
    /\ [][initialized => initialized' /\ rrat_writes' = rrat_writes]_vars
    /\ ([]<>write_ready) => <>initialized

\* commit changed an entry after the initialization wrote 0 to all of them.
C38_Witness ==
    /\ initialized /\ Len(rrat_writes) = RratRegCnt
    /\ \E a \in RratLogicalRegs : rrat_entries[a] # 0
    /\ peeked # <<>>

(***************************************************************************)
(* FifoRS (fifo_rs.py 10-39): front, back and reserved, with the methods   *)
(* alloc and free_idx.  One action is one cycle in which the methods named *)
(* are called.  free_idx is called only while some entry is reserved.      *)
(***************************************************************************)
\* The number of entries of the reservation station.
RsEntries == 4

RsIdents == 0..(RsEntries - 1)

\* mod_incr(sig, mod): the next value of a counter modulo mod
mod_incr(sig, mod) == IF sig = mod - 1 THEN 0 ELSE sig + 1

\* ~reserved.all()
alloc_ready(res) == res # RsIdents

released_Idx(f, idx) == idx

\* reserved.bit_select(front, 1).eq(0): the entry free_idx releases
released(f, idx) == f

\* The calls of a cycle: an absent call is <<>>.
RsRet(ident, idx) == [ident |-> ident, idx |-> idx]

InitFifoRS ==
    /\ NoDesign /\ NoCombiner /\ NoEIR /\ NoFRAT /\ NoFreeRF /\ NoMerger /\ NoRF /\ NoRRAT
    /\ rob_start_idx = 0
    /\ front = 0 /\ back = 0 /\ reserved = {}
    /\ rs_ret = RsRet(<<>>, <<>>)
    /\ last_ident = <<>>
    /\ outstanding = <<>>
    /\ NoMinValue

\* A cycle in which alloc is called
Alloc ==
    /\ alloc_ready(reserved)
    /\ reserved' = reserved \cup {back}
    /\ back' = mod_incr(back, RsEntries)
    /\ rs_ret' = RsRet(<<back>>, <<>>)
    /\ last_ident' = <<back>>
    /\ outstanding' = Append(outstanding, back)
    /\ UNCHANGED <<front, not_fifo_rs_vars>>

\* A cycle in which free_idx is called
FreeIdx ==
    /\ reserved # {}
    /\ \E idx \in RsIdents :
           /\ reserved' = reserved \ {released(front, idx)}
           /\ rs_ret' = RsRet(<<>>, <<idx>>)
    /\ front' = mod_incr(front, RsEntries)
    /\ outstanding' = Tail(outstanding)
    /\ UNCHANGED <<back, last_ident, not_fifo_rs_vars>>

\* A cycle in which alloc and free_idx are both called: first the bit at
\* back is set, then the bit at front is cleared
AllocAndFreeIdx ==
    /\ alloc_ready(reserved)
    /\ reserved # {}
    /\ \E idx \in RsIdents :
           /\ reserved' = (reserved \cup {back}) \ {released(front, idx)}
           /\ rs_ret' = RsRet(<<back>>, <<idx>>)
    /\ back' = mod_incr(back, RsEntries)
    /\ front' = mod_incr(front, RsEntries)
    /\ last_ident' = <<back>>
    /\ outstanding' = Tail(Append(outstanding, back))
    /\ UNCHANGED not_fifo_rs_vars

NextFifoRS == Alloc \/ FreeIdx \/ AllocAndFreeIdx

SpecFifoRS == InitFifoRS /\ [][NextFifoRS]_vars

\* The entries from front on, as many as are outstanding, going round.
CircularInterval ==
    [i \in 1..Len(outstanding) |-> (front + i - 1) % RsEntries]

\* The reserved entries are the interval from front to back.
FifoDiscipline ==
    /\ outstanding = CircularInterval
    /\ reserved = Range(outstanding)
    /\ Cardinality(reserved) = Len(outstanding)
    /\ back = (front + Len(outstanding)) % RsEntries
    /\ alloc_ready(reserved) <=> RsIdents \ reserved # {}

\* What alloc returned and what free_idx released in the cycle.
CallsKeepOrder ==
    /\ rs_ret'.ident # <<>> =>
          /\ rs_ret'.ident[1] \notin reserved
          /\ last_ident # <<>> => rs_ret'.ident[1] = (last_ident[1] + 1) % RsEntries
    /\ rs_ret'.idx # <<>> =>
          /\ Head(outstanding) \notin reserved'
          /\ reserved \ reserved' = {Head(outstanding)}

\* C39: with free_idx called only while an entry is reserved, the reserved
\* entries are the circular interval from front to back, alloc is ready iff
\* an entry is not reserved, the ident it returns is not reserved and follows
\* the ident of the alloc before it going round, and free_idx releases the
\* oldest entry allocated and not yet released, whatever idx is.
C39_FifoDiscipline == [](FifoDiscipline) /\ [][CallsKeepOrder]_vars

\* The reserved entries go round the end of the array, and the last free_idx
\* was called, together with alloc, with an idx other than the entry it
\* released.
C39_Witness ==
    /\ Len(outstanding) >= 2 /\ back < front
    /\ rs_ret.ident # <<>>
    /\ rs_ret.idx # <<>> /\ rs_ret.idx[1] # (front + RsEntries - 1) % RsEntries

(***************************************************************************)
(* min_value (exception.py 46-66) on values of different widths: the       *)
(* result is as wide as the widest value, the values are extended to this  *)
(* width, then the bits are decided from the highest one down.             *)
(***************************************************************************)
\* At most this many values are given to min_value.
MaxValues == 3
\* The values are at most this wide.
MaxWidth == 3

\* An unsigned signal of some width with a value.
Signals ==
    UNION {{[width |-> w, value |-> v] : v \in 0..(Pow2(w) - 1)} : w \in 1..MaxWidth}

\* result = Signal(max(len(value) for value in values))
result_width(values) ==
    CHOOSE w \in {values[k].width : k \in DOMAIN values} :
        \A k \in DOMAIN values : values[k].width <= w

RECURSIVE extend_from(_, _, _, _)
\* Bits i and above of a signal as wide as `width` assigned from an unsigned
\* value of `len` bits: the bits of the value, then the fill.
extend_from(value, len, width, fill) ==
    LET bits(i) == IF i < len THEN Bit(value, i) ELSE fill
    IN  IF width = 0 THEN 0
        ELSE bits(width - 1) * Pow2(width - 1) + extend_from(value, len, width - 1, fill)

extended_Ones(sig, width) == extend_from(sig.value, sig.width, width, 1)

\* sig.eq(value) for a Signal.like(result) and an unsigned value
extended(sig, width) == extend_from(sig.value, sig.width, width, 0)

\* min_value(m, values)
min_value_of(values) ==
    LET width == result_width(values)
    IN  min_value([k \in DOMAIN values |-> extended(values[k], width)], width)

InitMinValue ==
    /\ NoDesign /\ NoCombiner /\ NoEIR /\ NoFRAT /\ NoFreeRF /\ NoMerger /\ NoRF /\ NoRRAT
    /\ NoFifoRS
    /\ rob_start_idx = 0
    /\ \E n \in 1..MaxValues : min_inputs \in [1..n -> Signals]
    /\ min_result = <<>>

\* The combinational logic settles.
MinValue ==
    /\ min_inputs # <<>> /\ min_result = <<>>
    /\ min_result' = <<min_value_of(min_inputs)>>
    /\ UNCHANGED <<min_inputs, not_min_value_vars>>

NextMinValue == MinValue

SpecMinValue == InitMinValue /\ [][NextMinValue]_vars

\* C36: for every non-empty list of unsigned values, of equal or different
\* widths, the result of min_value is the smallest of the values, as a
\* number of the widest width.
C36_MinValueIsMinimum ==
    min_result # <<>> =>
        /\ \E k \in DOMAIN min_inputs : min_result[1] = min_inputs[k].value
        /\ \A k \in DOMAIN min_inputs : min_result[1] <= min_inputs[k].value
        /\ min_result[1] < Pow2(result_width(min_inputs))

\* Three values of three widths, the narrowest the largest and all ones, the
\* other two equal: the result is the value of the two.
C36_Witness ==
    /\ min_result # <<>> /\ Len(min_inputs) = 3
    /\ min_inputs[1].width = 1 /\ min_inputs[1].value = 1
    /\ min_inputs[2].width = 2 /\ min_inputs[3].width = 3
    /\ min_inputs[2].value = 0 /\ min_inputs[3].value = 0
    /\ min_result[1] = 0

====
